---- MODULE Spec2Model ----
(***************************************************************************)
(* A model of the scheduling core of airflow/models: the DAG graph         *)
(* algorithms (dag.py), clear_task_instances (__init__.py), the DagBag      *)
(* loader and zombie reclamation (dag_bag.py), Pool (pool.py) and XCom      *)
(* (x_com.py).  Every component has its own specification over the shared   *)
(* variables; the variables of the other components stay at their idle      *)
(* value.                                                                   *)
(***************************************************************************)
EXTENDS Integers, Sequences, FiniteSets, TLC

VARIABLES
    \* ---- Graph Model (dag.py): one DAG object and the result of the last call
    dag_id,              \* DAG.dag_id
    task_ids,            \* keys of DAG.task_dict, in insertion order
    upstream_task_ids,   \* task id -> the task's _upstream_task_ids
    downstream_task_ids, \* task id -> the task's _downstream_task_ids
    graph_call,          \* the last call on the DAG and what it returned / raised
    dag_dates,           \* DAG.start_date and DAG.end_date
    task_dict,           \* DAG.task_dict: task id -> the operator registered under it
    task_count,          \* DAG.task_count
    operators,           \* the operator objects: their task_id, start_date, end_date, _dag
    callbacks,           \* DAG.on_success_callback and DAG.on_failure_callback
    \* ---- the persisted state (the session's tables) and the clock
    task_instances,      \* TaskInstance rows: <<dag_id, task_id, execution_date>> -> fields
    jobs,                \* BaseJob rows: id -> [state, latest_heartbeat]
    dag_runs,            \* DagRun rows: <<dag_id, execution_date>> -> [state, start_date]
    pools,               \* Pool rows: pool name -> slots
    utcnow,              \* what timezone.utcnow() returns
    store_call,          \* the last operation on the store, its arguments and the rows before it
    \* ---- DagBag (dag_bag.py) and the DAG folder it reads
    bag_dags,            \* DagBag.dags: dag_id -> the DAG (task ids, fileloc, last_loaded)
    file_last_changed,   \* DagBag.file_last_changed: path -> modification time when last read
    import_errors,       \* DagBag.import_errors: path -> message
    files,               \* the DAG folder: path -> [mtime, content]
    bag_call,            \* the last collect_dags pass and what it did
    \* ---- XCom (x_com.py)
    xcoms,               \* the rows of the xcom table
    xcom_next_id,        \* the id the table gives to the next inserted row
    xcom_log,            \* the XCom.set calls made so far, in order, with their outcome
    \* ---- the schedule of a DAG (dag.py)
    schedule_interval,   \* DAG._schedule_interval: a timedelta, a cron expression or None
    dag_timezone,        \* DAG.timezone: the UTC offset before and after its transition
    sched_call,          \* the last schedule computation and what it returned
    \* ---- DagStat, DagModel and the sessions of the schedulers creating DagRuns
    dag_stats,           \* DagStat rows: <<dag_id, state>> -> [count, dirty]
    dag_models,          \* DagModel rows: dag_id -> [fileloc, last_expired]
    dag_run_rows,        \* the dag_run table as create_dagrun fills it: one record per insert
    sessions,            \* scheduler -> its position in create_dagrun and its open transaction
    \* ---- Variable (variable.py)
    variables,           \* the rows of the variable table: [key, val, is_encrypted]
    var_call,            \* the last two Variable.setdefault calls and what they returned / raised
    \* ---- the readers of XCom (x_com.py)
    xcom_call,           \* the last XCom.get_one / XCom.get_many call and what it returned
    xcom_writers,        \* process -> its position in XCom.set and the bytes it stores
    \* ---- the DAG context manager (dag.py)
    context_manager_dag, \* the module global _CONTEXT_MANAGER_DAG
    old_context_manager_dag, \* DAG object -> its _old_context_manager_dag attribute
    with_blocks          \* the DAG objects of the with blocks that are open, outermost first

dagObjVars == <<dag_dates, task_dict, task_count, operators, callbacks>>
graphVars == <<dag_id, task_ids, upstream_task_ids, downstream_task_ids, graph_call, dagObjVars>>
storeVars == <<task_instances, jobs, dag_runs, pools, utcnow, store_call>>
xcomVars == <<xcoms, xcom_next_id, xcom_log>>
bagVars == <<bag_dags, file_last_changed, import_errors, files, bag_call>>

schedVars == <<schedule_interval, dag_timezone, sched_call>>
statVars == <<dag_stats, dag_models, dag_run_rows, sessions>>
variableVars == <<variables, var_call>>
contextVars == <<context_manager_dag, old_context_manager_dag, with_blocks>>
restVars == <<variableVars, xcom_call, xcom_writers, contextVars>>

vars == <<graphVars, storeVars, bagVars, xcomVars, schedVars, statVars, restVars>>

(***************************************************************************)
(* Generic helpers on sequences                                            *)
(***************************************************************************)
Range(s) == {s[i] : i \in 1..Len(s)}

InList(x, s) == \E i \in 1..Len(s) : s[i] = x

\* list.remove(x): drops the first occurrence of x
RECURSIVE ListRemove(_, _)
ListRemove(s, x) ==
    IF s = <<>> THEN <<>>
    ELSE IF Head(s) = x THEN Tail(s)
    ELSE <<Head(s)>> \o ListRemove(Tail(s), x)

\* [x for x in s if x in keep]
RECURSIVE ListFilter(_, _)
ListFilter(s, keep) ==
    IF s = <<>> THEN <<>>
    ELSE IF Head(s) \in keep THEN <<Head(s)>> \o ListFilter(Tail(s), keep)
    ELSE ListFilter(Tail(s), keep)

(***************************************************************************)
(* Bounds of the graph model                                               *)
(***************************************************************************)
MaxTasks == 3
MaxEdges == 3

\* task ids are strings, modelled as sequences of characters so that the
\* regular-expression search of sub_dag can look inside them
AllTaskIds == {<<"a">>, <<"b">>, <<"c">>, <<"a", "b">>}
\* the orders in which the tasks were added to the DAG: every edge set is drawn
\* for each of them, so up to the names of the tasks no order is left out
InsertionOrders ==
    {<< <<"a">>, <<"b">>, <<"c">>, <<"a", "b">> >>,
     << <<"a", "b">>, <<"c">>, <<"b">>, <<"a">> >>}
DagIds == {"dag_x", "dag_y"}
\* literal patterns handed to sub_dag (the empty pattern matches every id)
Patterns == {<<>>, <<"a">>, <<"b">>, <<"c">>, <<"z">>}

NoCall == [op |-> "none"]

\* the value of the variables of a component that a specification does not use
DagObjIdle ==
    /\ dag_dates = <<>> /\ task_dict = <<>> /\ task_count = 0
    /\ operators = <<>> /\ callbacks = <<>>

GraphIdle ==
    /\ dag_id = "" /\ task_ids = <<>> /\ upstream_task_ids = <<>>
    /\ downstream_task_ids = <<>> /\ graph_call = NoCall
    /\ DagObjIdle

StoreIdle ==
    /\ task_instances = <<>> /\ jobs = <<>> /\ dag_runs = <<>> /\ pools = <<>>
    /\ utcnow = 0 /\ store_call = NoCall

XComIdle ==
    /\ xcoms = {} /\ xcom_next_id = 1 /\ xcom_log = <<>>

BagIdle ==
    /\ bag_dags = <<>> /\ file_last_changed = <<>> /\ import_errors = <<>>
    /\ files = <<>> /\ bag_call = NoCall

SchedIdle ==
    /\ schedule_interval = <<>> /\ dag_timezone = <<>> /\ sched_call = NoCall

StatIdle ==
    /\ dag_stats = <<>> /\ dag_models = <<>> /\ dag_run_rows = {} /\ sessions = <<>>

VariableIdle ==
    /\ variables = {} /\ var_call = <<>>

ContextIdle ==
    /\ context_manager_dag = "None" /\ old_context_manager_dag = <<>> /\ with_blocks = <<>>

RestIdle ==
    /\ VariableIdle
    /\ xcom_call = NoCall
    /\ xcom_writers = <<>>
    /\ ContextIdle

(***************************************************************************)
(* DAG.topological_sort                                                     *)
(***************************************************************************)
\* for edge in node.upstream_list: if edge in graph_unsorted: break
TopoBlockedNever(node, up, graph_unsorted) == FALSE

TopoBlocked(node, up, graph_unsorted) ==
    \E edge \in up[node] : InList(edge, graph_unsorted)

\* one pass "for node in list(graph_unsorted)": snapshot is the copy that is
\* iterated while graph_unsorted itself shrinks
TopoPassRestart(snapshot, i, up, graph_unsorted, graph_sorted, acyclic) ==
    LET free == {j \in i..Len(snapshot) : ~TopoBlocked(snapshot[j], up, graph_unsorted)}
    IN IF free = {}
       THEN [graph_unsorted |-> graph_unsorted, graph_sorted |-> graph_sorted,
             acyclic |-> acyclic]
       ELSE LET first == CHOOSE j \in free : \A k \in free : j <= k
            IN [graph_unsorted |-> ListRemove(graph_unsorted, snapshot[first]),
                graph_sorted |-> Append(graph_sorted, snapshot[first]),
                acyclic |-> TRUE]

RECURSIVE TopoPass(_, _, _, _, _, _)
TopoPass(snapshot, i, up, graph_unsorted, graph_sorted, acyclic) ==
    IF i > Len(snapshot)
    THEN [graph_unsorted |-> graph_unsorted, graph_sorted |-> graph_sorted,
          acyclic |-> acyclic]
    ELSE LET node == snapshot[i]
         IN IF TopoBlocked(node, up, graph_unsorted)
            THEN TopoPass(snapshot, i + 1, up, graph_unsorted, graph_sorted, acyclic)
            ELSE TopoPass(snapshot, i + 1, up, ListRemove(graph_unsorted, node),
                          Append(graph_sorted, node), TRUE)

\* if not acyclic: raise AirflowException("A cyclic dependency occurred in dag: ...")
TopoNoProgressReturns(id, graph_sorted) ==
    [status |-> "returned", value |-> graph_sorted]

TopoNoProgress(id, graph_sorted) ==
    [status |-> "raised", error |-> "A cyclic dependency occurred in dag", dag_id |-> id]

\* while graph_unsorted: ...
RECURSIVE TopoLoop(_, _, _, _)
TopoLoop(id, up, graph_unsorted, graph_sorted) ==
    IF graph_unsorted = <<>>
    THEN [status |-> "returned", value |-> graph_sorted]
    ELSE LET p == TopoPass(graph_unsorted, 1, up, graph_unsorted, graph_sorted, FALSE)
         IN IF ~p.acyclic
            THEN TopoNoProgress(id, p.graph_sorted)
            ELSE TopoLoop(id, up, p.graph_unsorted, p.graph_sorted)

topological_sort(id, tasks, up) ==
    IF Len(tasks) = 0
    THEN [status |-> "returned", value |-> <<>>]
    ELSE TopoLoop(id, up, tasks, <<>>)

\* topological_sort and sub_dag leave the DAG as it is: one call on each DAG
\* of GraphInit shows everything a sequence of calls can return
CallTopologicalSort ==
    /\ graph_call = NoCall
    /\ graph_call' = [op |-> "topological_sort",
                      result |-> topological_sort(dag_id, task_ids, upstream_task_ids)]
    /\ UNCHANGED <<dag_id, task_ids, upstream_task_ids, downstream_task_ids, dagObjVars>>
    /\ UNCHANGED <<storeVars, bagVars, xcomVars, restVars, schedVars, statVars>>

(***************************************************************************)
(* DAG.sub_dag                                                              *)
(***************************************************************************)
\* re.findall(task_regex, t.task_id) for a literal task_regex: truthy when the
\* pattern occurs somewhere in the id (the empty pattern occurs in every id)
re_findall(task_regex, task_id) ==
    \E i \in 0..(Len(task_id) - Len(task_regex)) :
        SubSeq(task_id, i + 1, i + Len(task_regex)) = task_regex

\* BaseOperator.get_flat_relatives: every task reachable from t through the
\* given direction's id lists (t itself only when a cycle leads back to it)
RECURSIVE FlatRelatives(_, _, _)
FlatRelatives(frontier, rel, seen) ==
    LET new == (UNION {rel[x] : x \in frontier}) \ seen
    IN IF new = {} THEN seen ELSE FlatRelatives(new, rel, seen \cup new)

get_flat_relatives(t, rel) == FlatRelatives({t}, rel, {})

\* [tid for tid in t._upstream_task_ids if tid in dag.task_ids]
SubDagPruneNothing(ids, surviving) == ids

SubDagPrune(ids, surviving) == {tid \in ids : tid \in surviving}

sub_dag(tasks, up, down, task_regex, include_downstream, include_upstream) ==
    LET regex_match == ListFilter(tasks, {t \in Range(tasks) : re_findall(task_regex, t)})
        also_include ==
            UNION {(IF include_downstream THEN get_flat_relatives(t, down) ELSE {})
                   \cup (IF include_upstream THEN get_flat_relatives(t, up) ELSE {})
                   : t \in Range(regex_match)}
        \* dag.task_dict = {t.task_id: t for t in regex_match + also_include}
        kept == regex_match \o ListFilter(tasks, also_include \ Range(regex_match))
    IN [task_ids |-> kept,
        upstream_task_ids |-> [t \in Range(kept) |-> SubDagPrune(up[t], Range(kept))],
        downstream_task_ids |-> [t \in Range(kept) |-> SubDagPrune(down[t], Range(kept))],
        partial |-> Len(kept) < Len(tasks)]

CallSubDag ==
    \E task_regex \in Patterns, include_downstream \in BOOLEAN, include_upstream \in BOOLEAN :
        /\ graph_call = NoCall
        /\ graph_call' = [op |-> "sub_dag",
                          task_regex |-> task_regex,
                          include_downstream |-> include_downstream,
                          include_upstream |-> include_upstream,
                          result |-> sub_dag(task_ids, upstream_task_ids, downstream_task_ids,
                                             task_regex, include_downstream, include_upstream)]
        /\ UNCHANGED <<dag_id, task_ids, upstream_task_ids, downstream_task_ids, dagObjVars>>
        /\ UNCHANGED <<storeVars, bagVars, xcomVars, restVars, schedVars, statVars>>

(***************************************************************************)
(* The DAGs the graph specification starts from                             *)
(***************************************************************************)
GraphInit ==
    /\ dag_id \in DagIds
    /\ \E T \in SUBSET AllTaskIds :
         /\ Cardinality(T) <= MaxTasks
         /\ \E order \in InsertionOrders : task_ids = ListFilter(order, T)
         /\ \E E \in SUBSET (T \X T) :
              /\ Cardinality(E) <= MaxEdges
              \* set_upstream / set_downstream record an edge on both of its ends
              /\ upstream_task_ids = [t \in T |-> {u \in T : <<u, t>> \in E}]
              /\ downstream_task_ids = [t \in T |-> {d \in T : <<t, d>> \in E}]
    /\ graph_call = NoCall
    /\ DagObjIdle
    /\ StoreIdle /\ BagIdle /\ XComIdle /\ RestIdle /\ SchedIdle /\ StatIdle

GraphNext ==
    \/ CallTopologicalSort
    \/ CallSubDag

SpecGraph == GraphInit /\ [][GraphNext]_vars

(***************************************************************************)
(* Properties of the graph model                                           *)
(***************************************************************************)
Tasks == Range(task_ids)

\* a cycle exists exactly when some non-empty set of tasks has, for each of its
\* members, an upstream task inside the set
HasCycle ==
    \E S \in SUBSET Tasks :
        /\ S # {}
        /\ \A t \in S : upstream_task_ids[t] \cap S # {}

SortCalled == graph_call.op = "topological_sort"

\* C1: for a DAG with at least one task and no cycle, topological_sort returns
\* a permutation of the DAG's tasks (each exactly once) in which every task
\* comes after each of its upstream tasks
C1_TopologicalSortOrdersAcyclicDag ==
    (SortCalled /\ Len(task_ids) >= 1 /\ ~HasCycle) =>
        /\ graph_call.result.status = "returned"
        /\ LET sorted == graph_call.result.value
           IN /\ Len(sorted) = Len(task_ids)
              /\ Range(sorted) = Tasks
              /\ \A i, j \in 1..Len(sorted) :
                    sorted[j] \in upstream_task_ids[sorted[i]] => j < i

C1_Witness ==
    /\ SortCalled /\ ~HasCycle
    /\ Len(task_ids) = 3
    /\ \E t \in Tasks : Cardinality(upstream_task_ids[t]) = 2
    /\ graph_call.result.status = "returned"
    /\ graph_call.result.value # task_ids

\* C2: for a DAG whose edges contain a cycle (a self-loop included),
\* topological_sort raises the cycle error carrying the DAG's id and returns
\* nothing, neither a partial nor a complete order
C2_TopologicalSortRaisesOnCycle ==
    (SortCalled /\ HasCycle) =>
        /\ graph_call.result.status = "raised"
        /\ graph_call.result.error = "A cyclic dependency occurred in dag"
        /\ graph_call.result.dag_id = dag_id

\* a cycle of length two below a task that can be sorted, and a self-loop
C2_Witness ==
    /\ SortCalled /\ graph_call.result.status = "raised"
    /\ \/ /\ \E t \in Tasks : upstream_task_ids[t] = {} /\ downstream_task_ids[t] # {}
          /\ \E t, u \in Tasks : t # u /\ t \in upstream_task_ids[u] /\ u \in upstream_task_ids[t]
       \/ \E t \in Tasks : t \in upstream_task_ids[t]

\* the smallest set of tasks that holds the relatives of every task of S and
\* is closed under rel
Closure(S, rel) ==
    CHOOSE X \in SUBSET Tasks :
        /\ \A t \in S \cup X : rel[t] \subseteq X
        /\ \A Y \in SUBSET Tasks : (\A t \in S \cup Y : rel[t] \subseteq Y) => X \subseteq Y

\* the pattern occurs in the id: the id is some prefix, the pattern, some suffix
Occurs(pattern, id) ==
    \E i \in 0..Len(id) : \E j \in i..Len(id) : SubSeq(id, i + 1, j) = pattern

SubDagCalled == graph_call.op = "sub_dag"

\* C8: sub_dag returns a DAG whose tasks are exactly the tasks matching the
\* pattern, plus their transitive downstream tasks when include_downstream,
\* plus their transitive upstream tasks when include_upstream, and whose
\* upstream/downstream id lists are the original ones cut to surviving tasks
C8_SubDagSelectsAndPrunes ==
    SubDagCalled =>
        LET matched == {t \in Tasks : Occurs(graph_call.task_regex, t)}
            expected ==
                matched
                \cup (IF graph_call.include_downstream
                      THEN Closure(matched, downstream_task_ids) ELSE {})
                \cup (IF graph_call.include_upstream
                      THEN Closure(matched, upstream_task_ids) ELSE {})
            sub == graph_call.result
        IN /\ Range(sub.task_ids) = expected
           /\ Len(sub.task_ids) = Cardinality(expected)
           /\ \A t \in expected :
                /\ sub.upstream_task_ids[t] = upstream_task_ids[t] \cap expected
                /\ sub.downstream_task_ids[t] = downstream_task_ids[t] \cap expected

\* selecting b from a -> b -> c with downstream only: exactly {b, c}, and b has
\* lost its upstream edge to a
C8_Witness ==
    /\ SubDagCalled
    /\ graph_call.task_regex = <<"b">>
    /\ graph_call.include_downstream /\ ~graph_call.include_upstream
    /\ Tasks = {<<"a">>, <<"b">>, <<"c">>}
    /\ upstream_task_ids[<<"b">>] = {<<"a">>}
    /\ upstream_task_ids[<<"c">>] = {<<"b">>}
    /\ upstream_task_ids[<<"a">>] = {}
    /\ Range(graph_call.result.task_ids) = {<<"b">>, <<"c">>}
    /\ graph_call.result.upstream_task_ids[<<"b">>] = {}
    /\ graph_call.result.partial

(***************************************************************************)
(* The persisted state: TaskInstance, job and DagRun rows                   *)
(***************************************************************************)
MaxTryNumber == 2
MaxRetries == 3

\* State.* of airflow.utils.state (State.NONE is Python's None)
NONE == "none"
RUNNING == "running"
QUEUED == "queued"
SUCCESS == "success"
FAILED == "failed"
SHUTDOWN == "shutdown"
SKIPPED == "skipped"

\* TaskInstance.job_id / the dag argument when they are None
NoJob == 0
NoDag == [given |-> FALSE]

TIKeys == {<<"d1", "t1", 1>>, <<"d2", "t2", 2>>}
JobIds == {1, 2, 3}
RunKeys == {<<d, e>> : d \in {"d1", "d2"}, e \in {1, 2}}

\* the dag argument of clear_task_instances: None, or a DAG whose task_dict
\* maps task ids to tasks with a retries setting
ClearDags ==
    {NoDag,
     [given |-> TRUE, retries |-> <<>>],
     [given |-> TRUE, retries |-> ("t1" :> 0)],
     [given |-> TRUE, retries |-> ("t1" :> MaxRetries @@ "t2" :> 1)]}

\* dag.has_task(task_id)
has_task(dag, task_id) == task_id \in DOMAIN dag.retries

(***************************************************************************)
(* clear_task_instances (airflow/models/__init__.py)                        *)
(***************************************************************************)
\* ti.max_tries = ti.try_number + task_retries - 1
ClearMaxTriesKept(ti, task_retries) == ti.max_tries

ClearMaxTriesWithTask(ti, task_retries) == ti.try_number + task_retries - 1

\* ti.max_tries = max(ti.max_tries, ti.try_number - 1)
ClearMaxTriesNoTaskKept(ti) == ti.max_tries

ClearMaxTriesNoTaskReset(ti) == ti.try_number - 1

ClearMaxTriesNoTask(ti) ==
    IF ti.max_tries >= ti.try_number - 1 THEN ti.max_tries ELSE ti.try_number - 1

\* the body of "for ti in tis" for one instance: the instance afterwards
ClearOne(key, ti, dag) ==
    IF ti.state = RUNNING
    THEN IF ti.job_id # NoJob
         THEN [ti EXCEPT !.state = SHUTDOWN]
         ELSE ti
    ELSE LET task_id == key[2]
         IN IF dag.given /\ has_task(dag, task_id)
            THEN [ti EXCEPT !.max_tries = ClearMaxTriesWithTask(ti, dag.retries[task_id]),
                            !.state = NONE]
            ELSE [ti EXCEPT !.max_tries = ClearMaxTriesNoTask(ti),
                            !.state = NONE]

\* job_ids: the job ids appended by the loop
ClearAllJobIds(tis, rows) == JobIds

ClearJobIds(tis, rows) ==
    {rows[k].job_id : k \in {k \in tis : rows[k].state = RUNNING /\ rows[k].job_id # NoJob}}

\* the DagRun rows selected when activate_dag_runs and tis:
\* dag_id in {ti.dag_id for ti in tis} and execution_date in {ti.execution_date ...}
ClearDagRuns(tis, activate_dag_runs) ==
    IF activate_dag_runs /\ tis # {}
    THEN {r \in DOMAIN dag_runs :
            /\ r[1] \in {k[1] : k \in tis}
            /\ r[2] \in {k[3] : k \in tis}}
    ELSE {}

clear_task_instances(tis, activate_dag_runs, dag) ==
    LET job_ids == ClearJobIds(tis, task_instances)
        drs == ClearDagRuns(tis, activate_dag_runs)
    IN /\ task_instances' =
            [k \in DOMAIN task_instances |->
                IF k \in tis THEN ClearOne(k, task_instances[k], dag) ELSE task_instances[k]]
       /\ jobs' = [j \in DOMAIN jobs |->
                     IF j \in job_ids THEN [jobs[j] EXCEPT !.state = SHUTDOWN] ELSE jobs[j]]
       /\ dag_runs' = [r \in DOMAIN dag_runs |->
                         IF r \in drs
                         THEN [dag_runs[r] EXCEPT !.state = RUNNING, !.start_date = utcnow]
                         ELSE dag_runs[r]]

\* clear_task_instances is applied once to each store drawn by ClearInit
CallClearTaskInstances ==
    \E tis \in SUBSET DOMAIN task_instances, activate_dag_runs \in BOOLEAN, dag \in ClearDags :
        /\ store_call = NoCall
        /\ clear_task_instances(tis, activate_dag_runs, dag)
        /\ store_call' = [op |-> "clear_task_instances", tis |-> tis,
                          activate_dag_runs |-> activate_dag_runs, dag |-> dag,
                          before |-> [task_instances |-> task_instances, jobs |-> jobs,
                                      dag_runs |-> dag_runs]]
        /\ UNCHANGED <<pools, utcnow>>
        /\ UNCHANGED <<graphVars, bagVars, xcomVars, restVars, schedVars, statVars>>

ClearInit ==
    /\ task_instances \in
         [TIKeys -> [state : {RUNNING, FAILED, SUCCESS},
                     try_number : 1..MaxTryNumber,
                     max_tries : 0..MaxTryNumber,
                     job_id : {NoJob, 1, 2},
                     pool : {"p1"}]]
    \* job 3 is the job of no instance
    /\ jobs = [j \in JobIds |-> [state |-> RUNNING, latest_heartbeat |-> 0]]
    /\ \E s \in {SUCCESS, FAILED} :
         dag_runs = [r \in RunKeys |-> [state |-> s, start_date |-> 0]]
    /\ pools = <<>>
    /\ utcnow = 1
    /\ store_call = NoCall
    /\ GraphIdle /\ BagIdle /\ XComIdle /\ RestIdle /\ SchedIdle /\ StatIdle

ClearNext ==
    \/ CallClearTaskInstances

SpecClear == ClearInit /\ [][ClearNext]_vars

ClearCalled == store_call.op = "clear_task_instances"

\* C3: every input instance that is not RUNNING ends in state NONE, with
\* max_tries = try_number + task.retries - 1 when the dag is given and has the
\* instance's task, and max(previous max_tries, try_number - 1) otherwise
C3_ClearResetsStateAndMaxTries ==
    ClearCalled =>
        \A k \in store_call.tis :
            LET old == store_call.before.task_instances[k]
                new == task_instances[k]
                dag == store_call.dag
            IN old.state # RUNNING =>
                 /\ new.state = NONE
                 /\ (dag.given /\ k[2] \in DOMAIN dag.retries) =>
                        new.max_tries = old.try_number + dag.retries[k[2]] - 1
                 /\ ~(dag.given /\ k[2] \in DOMAIN dag.retries) =>
                        /\ new.max_tries >= old.max_tries
                        /\ new.max_tries >= old.try_number - 1
                        /\ new.max_tries \in {old.max_tries, old.try_number - 1}

\* a FAILED instance with try_number 2 of a task with 3 retries gets
\* max_tries 4, next to a RUNNING instance of the same call
C3_Witness ==
    /\ ClearCalled
    /\ store_call.tis = TIKeys
    /\ store_call.dag.given
    /\ "t1" \in DOMAIN store_call.dag.retries
    /\ store_call.dag.retries["t1"] = 3
    /\ store_call.before.task_instances[<<"d1", "t1", 1>>].state = FAILED
    /\ store_call.before.task_instances[<<"d1", "t1", 1>>].try_number = 2
    /\ store_call.before.task_instances[<<"d2", "t2", 2>>].state = RUNNING
    /\ task_instances[<<"d1", "t1", 1>>].state = NONE
    /\ task_instances[<<"d1", "t1", 1>>].max_tries = 4

\* C4: every input instance that is RUNNING with a bound job ends SHUTDOWN with
\* try_number and max_tries as before; every job bound to such an instance ends
\* SHUTDOWN and every other job is as before
C4_ClearShutsDownRunningAndTheirJobs ==
    ClearCalled =>
        LET old == store_call.before
            collected == {j \in DOMAIN jobs :
                            \E k \in store_call.tis :
                                /\ old.task_instances[k].state = RUNNING
                                /\ old.task_instances[k].job_id = j}
        IN /\ \A k \in store_call.tis :
                (old.task_instances[k].state = RUNNING /\ old.task_instances[k].job_id # NoJob) =>
                    task_instances[k] = [old.task_instances[k] EXCEPT !.state = SHUTDOWN]
           /\ \A j \in DOMAIN jobs :
                IF j \in collected
                THEN jobs[j] = [old.jobs[j] EXCEPT !.state = SHUTDOWN]
                ELSE jobs[j] = old.jobs[j]

C4_Witness ==
    /\ ClearCalled
    /\ \E k \in store_call.tis :
         /\ store_call.before.task_instances[k].state = RUNNING
         /\ store_call.before.task_instances[k].job_id = 2
         /\ task_instances[k].state = SHUTDOWN
    /\ jobs[2].state = SHUTDOWN
    /\ jobs[1].state = RUNNING
    /\ \E k \in DOMAIN task_instances \ store_call.tis :
         /\ task_instances[k].state = RUNNING
         /\ task_instances[k].job_id = 1

(***************************************************************************)
(* DagBag.kill_zombies (dag_bag.py)                                         *)
(***************************************************************************)
MaxClock == 3

\* the values of [scheduler] scheduler_zombie_task_threshold, in clock ticks
ZombieThresholds == {1, 2}

\* the DagBag.dags that kill_zombies runs with: dag_id -> the DAG's task ids
ZombieBags ==
    {<<>>,
     ("d1" :> [task_ids |-> {"t1"}, fileloc |-> "f1", last_loaded |-> 0]),
     ("d1" :> [task_ids |-> {}, fileloc |-> "f1", last_loaded |-> 0]),
     ("d1" :> [task_ids |-> {"t1"}, fileloc |-> "f1", last_loaded |-> 0]
        @@ "d2" :> [task_ids |-> {"t2"}, fileloc |-> "f2", last_loaded |-> 0])}

\* session.query(TI).join(LJ, TI.job_id == LJ.id): the joined rows <<instance, job>>
ZombieJoinAll(rows, jbs) == {<<k, j>> : k \in DOMAIN rows, j \in DOMAIN jbs}

ZombieJoin(rows, jbs) ==
    {<<k, j>> \in (DOMAIN rows) \X (DOMAIN jbs) : rows[k].job_id = j}

\* .filter(TI.state == RUNNING)
\* .filter(or_(LJ.state != RUNNING, LJ.latest_heartbeat < limit_dttm))
ZombieFilterAllRunning(rows, jbs, limit_dttm) ==
    {r \in ZombieJoin(rows, jbs) : rows[r[1]].state = RUNNING}

ZombieFilter(rows, jbs, limit_dttm) ==
    {r \in ZombieJoin(rows, jbs) :
        /\ rows[r[1]].state = RUNNING
        /\ \/ jbs[r[2]].state # RUNNING
           \/ jbs[r[2]].latest_heartbeat < limit_dttm}

\* if ti and ti.dag_id in self.dags: ... if ti.task_id in dag.task_ids:
ZombieInBag(k, dags) ==
    /\ k[1] \in DOMAIN dags
    /\ k[2] \in dags[k[1]].task_ids

\* TaskInstance.handle_failure(reason): the instance is marked failed
handle_failure(ti, reason) == [ti EXCEPT !.state = FAILED]

\* "{} killed as zombie".format(str(ti))
ZombieReason(k) == [ti |-> k, text |-> "killed as zombie"]

KillZombies ==
    \E secs \in ZombieThresholds :
        LET limit_dttm == utcnow - secs
            tis == ZombieFilter(task_instances, jobs, limit_dttm)
            handled == {r \in tis : ZombieInBag(r[1], bag_dags)}
        IN /\ task_instances' =
                [k \in DOMAIN task_instances |->
                    IF \E r \in handled : r[1] = k
                    THEN handle_failure(task_instances[k], ZombieReason(k))
                    ELSE task_instances[k]]
           /\ store_call' =
                [op |-> "kill_zombies", secs |-> secs,
                 \* one handle_failure call, with its reason, for each row of the loop
                 handle_failure |-> {[row |-> r, reason |-> ZombieReason(r[1])] : r \in handled},
                 zombies_killed |-> Cardinality(handled),
                 before |-> [task_instances |-> task_instances, jobs |-> jobs,
                             dag_runs |-> dag_runs]]
           /\ UNCHANGED <<jobs, dag_runs, pools, utcnow>>
           /\ UNCHANGED <<graphVars, bagVars, xcomVars, restVars, schedVars, statVars>>

ZombieInit ==
    /\ task_instances \in
         [TIKeys -> [state : {RUNNING, QUEUED, SUCCESS},
                     try_number : {1},
                     max_tries : {0},
                     job_id : {NoJob, 1, 2},
                     pool : {"p1"}]]
    /\ jobs \in [{1, 2} -> [state : {RUNNING, SUCCESS}, latest_heartbeat : 0..MaxClock]]
    /\ dag_runs = [r \in RunKeys |-> [state |-> RUNNING, start_date |-> 0]]
    /\ pools = <<>>
    /\ utcnow = MaxClock
    /\ store_call = NoCall
    /\ bag_dags \in ZombieBags
    /\ file_last_changed = <<>> /\ import_errors = <<>> /\ files = <<>> /\ bag_call = NoCall
    /\ GraphIdle /\ XComIdle /\ RestIdle /\ SchedIdle /\ StatIdle

ZombieNext ==
    \/ KillZombies

SpecZombie == ZombieInit /\ [][ZombieNext]_vars

ZombiesKilled == store_call.op = "kill_zombies"

\* the instances that were RUNNING and bound to a job whose latest heartbeat
\* was older than the threshold when kill_zombies was called
StaleBefore ==
    {k \in DOMAIN task_instances :
        LET old == store_call.before
        IN /\ old.task_instances[k].state = RUNNING
           /\ old.task_instances[k].job_id \in DOMAIN old.jobs
           /\ old.jobs[old.task_instances[k].job_id].latest_heartbeat
                < utcnow - store_call.secs}

\* the handle_failure calls of the invocation that were made for instance k
FailureCalls(k) == {c \in store_call.handle_failure : c.row[1] = k}

FailedOnceAsZombie(k) ==
    /\ task_instances[k].state = FAILED
    /\ Cardinality(FailureCalls(k)) = 1
    /\ \A c \in FailureCalls(k) : c.reason = [ti |-> k, text |-> "killed as zombie"]

MaxSlots == 5

PoolNames == {"p1", "p2"}
PoolTIKeys == {<<"d1", "t1", 1>>, <<"d1", "t2", 1>>, <<"d2", "t1", 1>>, <<"d2", "t2", 1>>}

\* Pool.used_slots: the instances of the pool that are RUNNING, counted
used_slots(pool) ==
    Cardinality({k \in DOMAIN task_instances :
                    /\ task_instances[k].pool = pool
                    /\ task_instances[k].state = RUNNING})

\* Pool.queued_slots: the instances of the pool that are QUEUED, counted
queued_slots(pool) ==
    Cardinality({k \in DOMAIN task_instances :
                    /\ task_instances[k].pool = pool
                    /\ task_instances[k].state = QUEUED})

\* Pool.open_slots
OpenSlotsIgnoringQueued(pool) == pools[pool] - used_slots(pool)

open_slots(pool) == pools[pool] - used_slots(pool) - queued_slots(pool)

CallOpenSlots ==
    \E pool \in DOMAIN pools :
        /\ store_call' = [op |-> "open_slots", pool |-> pool, result |-> open_slots(pool)]
        /\ UNCHANGED <<task_instances, jobs, dag_runs, pools, utcnow>>
        /\ UNCHANGED <<graphVars, bagVars, xcomVars, restVars, schedVars, statVars>>

\* the pool's slots column is edited (Pool.slots is a plain column); the value
\* returned by an earlier open_slots call is no longer held by anyone
SetPoolSlots ==
    \E pool \in DOMAIN pools, slots \in 0..MaxSlots :
        /\ pools' = [pools EXCEPT ![pool] = slots]
        /\ store_call' = NoCall
        /\ UNCHANGED <<task_instances, jobs, dag_runs, utcnow>>
        /\ UNCHANGED <<graphVars, bagVars, xcomVars, restVars, schedVars, statVars>>

\* the scheduler and the workers move an instance along
\* NONE -> QUEUED -> RUNNING -> SUCCESS
NextInstanceState(state) ==
    CASE state = NONE -> QUEUED
      [] state = QUEUED -> RUNNING
      [] state = RUNNING -> SUCCESS

SetInstanceState ==
    \E k \in DOMAIN task_instances :
        /\ task_instances[k].state # SUCCESS
        /\ task_instances' =
             [task_instances EXCEPT ![k].state = NextInstanceState(task_instances[k].state)]
        /\ store_call' = NoCall
        /\ UNCHANGED <<jobs, dag_runs, pools, utcnow>>
        /\ UNCHANGED <<graphVars, bagVars, xcomVars, restVars, schedVars, statVars>>

PoolInit ==
    /\ \E last_pool \in PoolNames :
         task_instances =
            [k \in PoolTIKeys |->
                [state |-> NONE, try_number |-> 1, max_tries |-> 0, job_id |-> NoJob,
                 pool |-> IF k = <<"d2", "t2", 1>> THEN last_pool ELSE "p1"]]
    /\ jobs = <<>>
    /\ dag_runs = <<>>
    /\ pools = [p \in PoolNames |-> MaxSlots]
    /\ utcnow = 0
    /\ store_call = NoCall
    /\ GraphIdle /\ BagIdle /\ XComIdle /\ RestIdle /\ SchedIdle /\ StatIdle

PoolNext ==
    \/ CallOpenSlots
    \/ SetPoolSlots
    \/ SetInstanceState

SpecPool == PoolInit /\ [][PoolNext]_vars

\* how many of the instances bound to the pool are in the state
RECURSIVE CountIn(_, _, _)
CountIn(keys, pool, state) ==
    IF keys = {} THEN 0
    ELSE LET k == CHOOSE x \in keys : TRUE
         IN (IF task_instances[k].pool = pool /\ task_instances[k].state = state
             THEN 1 ELSE 0)
            + CountIn(keys \ {k}, pool, state)

OpenSlotsCalled == store_call.op = "open_slots"

\* C7: open_slots returns slots minus the instances RUNNING with the pool's
\* name minus the instances QUEUED with it, as they are when it is called; the
\* result is negative, and no error, when the usage exceeds slots
C7_OpenSlotsIsSlotsMinusUsage ==
    OpenSlotsCalled =>
        store_call.result
            + CountIn(DOMAIN task_instances, store_call.pool, RUNNING)
            + CountIn(DOMAIN task_instances, store_call.pool, QUEUED)
          = pools[store_call.pool]

\* slots reduced to 2 under 3 RUNNING and 1 QUEUED instances: open_slots is -2
C7_Witness ==
    /\ OpenSlotsCalled
    /\ store_call.pool = "p1"
    /\ pools["p1"] = 2
    /\ CountIn(DOMAIN task_instances, "p1", RUNNING) = 3
    /\ CountIn(DOMAIN task_instances, "p1", QUEUED) = 1
    /\ store_call.result = -2

(***************************************************************************)
(* XCom (x_com.py)                                                          *)
(***************************************************************************)
MaxXComSets == 3

XComKeys == {"k1", "k2"}
XComDates == {1, 2}
\* the values handed to XCom.set; json.dumps raises ValueError on the last one
XComValues == {"v1", "v2", "circular"}

\* pickle.dumps(value) / json.dumps(value).encode('UTF-8'): the stored bytes
pickle_dumps(value) == [format |-> "pickle", of |-> value]
json_dumps(value) == [format |-> "json", of |-> value]
json_dumps_raises(value) == value = "circular"

\* the rows matched by the filter of XCom.set's delete
XComDuplicatesOfKey(key, execution_date, task_id, dagid) ==
    {x \in xcoms : x.key = key /\ x.task_id = task_id /\ x.dag_id = dagid}

XComDuplicates(key, execution_date, task_id, dagid) ==
    {x \in xcoms :
        /\ x.key = key
        /\ x.execution_date = execution_date
        /\ x.task_id = task_id
        /\ x.dag_id = dagid}

\* XCom.set: serialize (or raise), delete the duplicates, commit, insert, commit
XComSet ==
    \E key \in XComKeys, value \in XComValues, execution_date \in XComDates,
       enable_pickling \in BOOLEAN :
        LET task_id == "t1"
            dagid == "d1"
            call == [key |-> key, value |-> value, execution_date |-> execution_date,
                     task_id |-> task_id, dag_id |-> dagid,
                     enable_pickling |-> enable_pickling]
        IN /\ Len(xcom_log) < MaxXComSets
           /\ IF ~enable_pickling /\ json_dumps_raises(value)
              THEN /\ xcom_log' = Append(xcom_log, [call |-> call, outcome |-> "raised"])
                   /\ UNCHANGED <<xcoms, xcom_next_id>>
              ELSE LET stored == IF enable_pickling THEN pickle_dumps(value)
                                 ELSE json_dumps(value)
                   IN /\ xcoms' =
                           (xcoms \ XComDuplicates(key, execution_date, task_id, dagid))
                           \cup {[id |-> xcom_next_id, key |-> key, value |-> stored,
                                  timestamp |-> utcnow, execution_date |-> execution_date,
                                  task_id |-> task_id, dag_id |-> dagid]}
                      /\ xcom_next_id' = xcom_next_id + 1
                      /\ xcom_log' = Append(xcom_log, [call |-> call, outcome |-> "returned"])
           /\ UNCHANGED <<graphVars, storeVars, bagVars, schedVars, statVars, restVars>>

XComInit ==
    /\ xcoms = {}
    /\ xcom_next_id = 1
    /\ xcom_log = <<>>
    /\ GraphIdle /\ StoreIdle /\ BagIdle /\ SchedIdle /\ StatIdle /\ RestIdle

XComNext ==
    \/ XComSet

SpecXCom == XComInit /\ [][XComNext]_vars

XComScopes == {<<"d1", "t1", e, k>> : e \in XComDates, k \in XComKeys}

RowsOf(scope) ==
    {x \in xcoms : <<x.dag_id, x.task_id, x.execution_date, x.key>> = scope}

\* the positions in the log of the calls that wrote to the scope
WritesTo(scope) ==
    {i \in 1..Len(xcom_log) :
        /\ xcom_log[i].outcome = "returned"
        /\ <<xcom_log[i].call.dag_id, xcom_log[i].call.task_id,
             xcom_log[i].call.execution_date, xcom_log[i].call.key>> = scope}

\* what a reader gets back from the stored bytes
Decoded(x) == x.value.of

\* C6: after any sequence of XCom.set calls that do not overlap there is at
\* most one row for each (dag_id, task_id, execution_date, key), and it holds
\* the value of the last call that wrote it
C6_XComSetLastWriteWins ==
    \A scope \in XComScopes :
        IF WritesTo(scope) = {}
        THEN RowsOf(scope) = {}
        ELSE LET last == CHOOSE i \in WritesTo(scope) : \A j \in WritesTo(scope) : j <= i
             IN /\ Cardinality(RowsOf(scope)) = 1
                /\ \A x \in RowsOf(scope) : Decoded(x) = xcom_log[last].call.value

\* two calls with the same key and scope and different values, then one row
\* holding the second value, next to a row of another execution date
C6_Witness ==
    /\ Len(xcom_log) = 3
    /\ xcom_log[1].call.key = "k1" /\ xcom_log[1].call.execution_date = 1
    /\ xcom_log[1].call.value = "v1" /\ xcom_log[1].outcome = "returned"
    /\ xcom_log[2].call.key = "k1" /\ xcom_log[2].call.execution_date = 2
    /\ xcom_log[2].outcome = "returned"
    /\ xcom_log[3].call.key = "k1" /\ xcom_log[3].call.execution_date = 1
    /\ xcom_log[3].call.value = "v2" /\ xcom_log[3].outcome = "returned"
    /\ Cardinality(RowsOf(<<"d1", "t1", 1, "k1">>)) = 1
    /\ \A x \in RowsOf(<<"d1", "t1", 1, "k1">>) : Decoded(x) = "v2"
    /\ Cardinality(xcoms) = 2

(***************************************************************************)
(* DagBag.process_file, DagBag.bag_dag and DagBag.collect_dags (dag_bag.py) *)
(***************************************************************************)
MaxMtime == 2

\* the .py files of the DAG folder, in the order os.walk lists them
FolderOrder == <<"f1", "f2">>
Paths == Range(FolderOrder)

\* what a file holds: a module defining one DAG, a module that raises an
\* Exception when imported, a module whose import outlasts
\* DAGBAG_IMPORT_TIMEOUT, or text without the markers b'DAG' and b'airflow'
Contents == {"dag", "raises", "hangs", "plain"}

\* the dag_id of the DAG defined by the file at the path
DagIdOf(path) == IF path = "f1" THEN "d1" ELSE "d2"

\* imp.load_source(mod_name, filepath) under timeout(DAGBAG_IMPORT_TIMEOUT):
\* the module, or the Exception raised inside the try block
load_source(file) ==
    CASE file.content = "dag" -> [raised |-> FALSE]
      [] file.content = "raises" -> [raised |-> TRUE, message |-> "import failed"]
      [] file.content = "hangs" -> [raised |-> TRUE, message |-> "Timeout"]

\* DagBag.bag_dag for a DAG without sub-DAGs
bag_dag(dags, path) ==
    [d \in DOMAIN dags \cup {DagIdOf(path)} |->
        IF d = DagIdOf(path)
        THEN [task_ids |-> {"t1"}, fileloc |-> path, last_loaded |-> utcnow]
        ELSE dags[d]]

\* f[k] = v on a dict
DictSet(f, k, v) == [x \in DOMAIN f \cup {k} |-> IF x = k THEN v ELSE f[x]]

\* except Exception as e: self.import_errors[filepath] = str(e)
RecordImportError(errors, filepath, message) == DictSet(errors, filepath, message)

\* if only_if_updated and filepath in self.file_last_changed
\*    and file_last_changed_on_disk == self.file_last_changed[filepath]
FileNotUpdatedNever(bag, filepath, only_if_updated, file_last_changed_on_disk) == FALSE

FileNotUpdated(bag, filepath, only_if_updated, file_last_changed_on_disk) ==
    /\ only_if_updated
    /\ filepath \in DOMAIN bag.file_last_changed
    /\ file_last_changed_on_disk = bag.file_last_changed[filepath]

\* DagBag.process_file(filepath, only_if_updated, safe_mode=True) on a path of
\* the folder: the bag afterwards, the DAGs found, and whether the file was imported
process_file(bag, folder, filepath, only_if_updated) ==
    LET file_last_changed_on_disk == folder[filepath].mtime
        unchanged == [bag |-> bag, found_dags |-> {}, imported |-> FALSE]
    IN IF FileNotUpdated(bag, filepath, only_if_updated, file_last_changed_on_disk)
       THEN unchanged
       ELSE IF folder[filepath].content = "plain"
       THEN [unchanged EXCEPT
                !.bag.file_last_changed =
                    DictSet(bag.file_last_changed, filepath, file_last_changed_on_disk)]
       ELSE LET m == load_source(folder[filepath])
            IN IF m.raised
               THEN [bag |-> [bag EXCEPT
                        !.import_errors = RecordImportError(@, filepath, m.message),
                        !.file_last_changed =
                            DictSet(@, filepath, file_last_changed_on_disk)],
                     found_dags |-> {},
                     imported |-> TRUE]
               ELSE [bag |-> [bag EXCEPT
                        !.dags = bag_dag(@, filepath),
                        !.file_last_changed =
                            DictSet(@, filepath, file_last_changed_on_disk)],
                     found_dags |-> {DagIdOf(filepath)},
                     imported |-> TRUE]

\* the loop of collect_dags over the files of the folder, from the i-th on
RECURSIVE CollectFrom(_, _, _, _, _)
CollectFrom(i, bag, folder, only_if_updated, imported) ==
    IF i > Len(FolderOrder)
    THEN [bag |-> bag, imported |-> imported, raised |-> FALSE]
    ELSE LET r == process_file(bag, folder, FolderOrder[i], only_if_updated)
         IN CollectFrom(i + 1, r.bag, folder, only_if_updated,
                        IF r.imported THEN imported \cup {FolderOrder[i]} ELSE imported)

TheBag ==
    [dags |-> bag_dags, file_last_changed |-> file_last_changed,
     import_errors |-> import_errors]

\* DagBag.collect_dags(dag_folder, only_if_updated); the first pass is the one
\* DagBag.__init__ makes
CollectDags ==
    \E only_if_updated \in BOOLEAN :
        LET r == CollectFrom(1, TheBag, files, only_if_updated, {})
        IN /\ bag_dags' = r.bag.dags
           /\ file_last_changed' = r.bag.file_last_changed
           /\ import_errors' = r.bag.import_errors
           /\ bag_call' = [op |-> "collect_dags", only_if_updated |-> only_if_updated,
                           raised |-> r.raised, imported |-> r.imported,
                           folder |-> files, before |-> TheBag]
           /\ UNCHANGED files
           /\ UNCHANGED <<graphVars, storeVars, xcomVars, restVars, schedVars, statVars>>

\* somebody edits a file of the folder: its content and its modification time change
EditFileAt(path) ==
    \E content \in Contents :
        /\ bag_call # NoCall
        /\ files[path].mtime < MaxMtime
        /\ content # files[path].content
        /\ files' = [files EXCEPT ![path] = [mtime |-> files[path].mtime + 1,
                                             content |-> content]]
        /\ UNCHANGED <<bag_dags, file_last_changed, import_errors, bag_call>>
        /\ UNCHANGED <<graphVars, storeVars, xcomVars, restVars, schedVars, statVars>>

EditFile == \E path \in Paths : EditFileAt(path)

BagInit ==
    /\ files \in [Paths -> [mtime : {0}, content : Contents]]
    /\ bag_dags = <<>>
    /\ file_last_changed = <<>>
    /\ import_errors = <<>>
    /\ bag_call = NoCall
    /\ GraphIdle /\ StoreIdle /\ XComIdle /\ RestIdle /\ SchedIdle /\ StatIdle

BagNext ==
    \/ CollectDags
    \/ EditFile

SpecBag == BagInit /\ [][BagNext]_vars

Collected == bag_call.op = "collect_dags"

ValidIn(folder) == {p \in Paths : folder[p].content = "dag"}
FailingIn(folder) == {p \in Paths : folder[p].content \in {"raises", "hangs"}}

\* what holds of every pass: it does not raise, it leaves the DAG of every valid
\* file registered and an import error under the path of every failing file
CollectIsolatesFailures ==
    Collected =>
        /\ ~bag_call.raised
        /\ \A p \in ValidIn(bag_call.folder) : DagIdOf(p) \in DOMAIN bag_dags
        /\ FailingIn(bag_call.folder) \subseteq DOMAIN import_errors

\* C9: a pass over a folder holding one valid DAG file and one file that raises
\* on import completes without raising, registers the valid file's DAG, and
\* leaves import_errors with exactly one entry, keyed by the failing file's path
C9_OneFailingFileOneImportError ==
    (/\ Collected
     /\ Cardinality(ValidIn(bag_call.folder)) = 1
     /\ Cardinality(FailingIn(bag_call.folder)) = 1) =>
        /\ ~bag_call.raised
        /\ \A p \in ValidIn(bag_call.folder) : DagIdOf(p) \in DOMAIN bag_dags
        /\ DOMAIN import_errors = FailingIn(bag_call.folder)

\* the files that had an import error before the pass and that the pass
\* imported cleanly, their content and modification time having changed
FixedFiles ==
    {p \in Paths :
        /\ p \in DOMAIN bag_call.before.import_errors
        /\ bag_call.folder[p].content = "dag"
        /\ bag_call.folder[p].mtime # bag_call.before.file_last_changed[p]
        /\ p \in bag_call.imported}

\* C10: after a file that failed to import is fixed and collect_dags is called
\* again, the file's path is no longer a key of import_errors and the file's
\* DAG is registered in the bag
C10_FixedFileLeavesImportErrors ==
    Collected =>
        \A p \in FixedFiles :
            /\ p \notin DOMAIN import_errors
            /\ DagIdOf(p) \in DOMAIN bag_dags

\* the part of C10 that holds: the fixed file's DAG is registered
FixedFileIsRegistered ==
    Collected => \A p \in FixedFiles : DagIdOf(p) \in DOMAIN bag_dags

(***************************************************************************)
(* DAG.following_schedule, DAG.previous_schedule, DAG.normalize_schedule    *)
(* and DAG.get_run_dates (dag.py).  Instants are whole hours of UTC; a day  *)
(* of the local calendar has DayLen hours.                                  *)
(***************************************************************************)
MaxInstant == 12
MaxDelta == 2
DayLen == 4

\* None, where a datetime is expected
NoDate == -1

\* the instants handed to the schedule functions
Instants == DayLen..MaxInstant

\* DAG._schedule_interval: a timedelta of some hours, a cron expression firing
\* at the given hours of every local day, or None for '@once'
ScheduleIntervals ==
    {[kind |-> "timedelta", hours |-> d] : d \in 1..MaxDelta}
    \cup {[kind |-> "cron", at |-> H] : H \in (SUBSET (0..(DayLen - 1))) \ {{}}}
    \cup {[kind |-> "None"]}

\* DAG.timezone: the UTC offset is `before` up to the instant `at` and `after`
\* from it on (a fixed zone, a zone that puts its clocks forward, and one that
\* puts them back); is_dst is how the zone resolves a local time that exists
\* twice or not at all
Timezones ==
    {[before |-> z[1], after |-> z[2], at |-> 2 * DayLen, is_dst |-> b] :
        z \in {<<0, 0>>, <<0, 1>>, <<1, 0>>}, b \in BOOLEAN}

utcoffset(tz, dttm) == IF dttm < tz.at THEN tz.before ELSE tz.after

\* timezone.make_naive(dttm, self.timezone): the local wall-clock time
make_naive(dttm, tz) == dttm + utcoffset(tz, dttm)

\* timezone.make_aware(naive, self.timezone) followed by convert_to_utc: the
\* instant whose wall-clock time is `naive` when there is exactly one, else
\* the instant the zone's resolution rule gives
make_aware(naive, tz) ==
    LET candidates == {u \in {naive - tz.before, naive - tz.after} :
                          make_naive(u, tz) = naive}
        larger == IF tz.before > tz.after THEN tz.before ELSE tz.after
        smaller == IF tz.before > tz.after THEN tz.after ELSE tz.before
    IN IF Cardinality(candidates) = 1
       THEN CHOOSE u \in candidates : TRUE
       ELSE IF tz.is_dst THEN naive - larger ELSE naive - smaller

\* the wall-clock time matches the cron expression
CronMatches(expr, naive) == (naive % DayLen) \in expr

\* croniter(expr, naive).get_next(datetime)
get_next(expr, naive) ==
    CHOOSE m \in (naive + 1)..(naive + DayLen) :
        /\ CronMatches(expr, m)
        /\ \A k \in (naive + 1)..(m - 1) : ~CronMatches(expr, k)

\* croniter(expr, naive).get_prev(datetime)
get_prev(expr, naive) ==
    CHOOSE m \in (naive - DayLen)..(naive - 1) :
        /\ CronMatches(expr, m)
        /\ \A k \in (m + 1)..(naive - 1) : ~CronMatches(expr, k)

following_schedule(interval, tz, dttm) ==
    IF interval.kind = "cron"
    THEN make_aware(get_next(interval.at, make_naive(dttm, tz)), tz)
    ELSE IF interval.kind = "timedelta" THEN dttm + interval.hours
    ELSE NoDate

previous_schedule(interval, tz, dttm) ==
    IF interval.kind = "cron"
    THEN make_aware(get_prev(interval.at, make_naive(dttm, tz)), tz)
    ELSE IF interval.kind = "timedelta" THEN dttm - interval.hours
    ELSE NoDate

normalize_schedule(interval, tz, dttm) ==
    LET following == following_schedule(interval, tz, dttm)
    IN IF following = NoDate THEN dttm
       ELSE IF previous_schedule(interval, tz, following) # dttm THEN following
       ELSE dttm

\* dttm + self._schedule_interval below datetime.min (instant 0) raises
\* OverflowError
DateOverflows(interval, dttm) ==
    interval.kind = "timedelta" /\ dttm + interval.hours < 0

\* while next_run_date and next_run_date <= using_end_date: a loop that has
\* appended more dates than there are instants up to end_date never ends
RECURSIVE RunDatesLoop(_, _, _, _, _)
RunDatesLoop(interval, tz, next_run_date, using_end_date, run_dates) ==
    IF next_run_date = NoDate \/ next_run_date > using_end_date
    THEN [status |-> "returned", run_dates |-> run_dates]
    ELSE IF Len(run_dates) > using_end_date
    THEN [status |-> "loops", run_dates |-> run_dates]
    ELSE IF DateOverflows(interval, next_run_date)
    THEN [status |-> "raised", run_dates |-> Append(run_dates, next_run_date)]
    ELSE RunDatesLoop(interval, tz,
                      following_schedule(interval, tz, next_run_date),
                      using_end_date, Append(run_dates, next_run_date))

get_run_dates(interval, tz, is_subdag, start_date, end_date) ==
    LET next_run_date == IF ~is_subdag
                         THEN normalize_schedule(interval, tz, start_date)
                         ELSE start_date
    IN RunDatesLoop(interval, tz, next_run_date, end_date, <<>>)

CallPreviousSchedule ==
    \E dttm \in Instants :
        /\ sched_call = NoCall
        /\ sched_call' = [op |-> "previous_schedule", dttm |-> dttm,
                          result |-> previous_schedule(schedule_interval,
                                                       dag_timezone, dttm)]
        /\ UNCHANGED <<schedule_interval, dag_timezone>>
        /\ UNCHANGED <<graphVars, storeVars, bagVars, xcomVars, restVars, statVars>>

\* following_schedule on a fresh instant, or on what previous_schedule returned
CallFollowingSchedule ==
    \E dttm \in Instants \cup {NoDate} :
        /\ \/ /\ sched_call = NoCall
              /\ dttm \in Instants
           \/ /\ sched_call.op = "previous_schedule"
              /\ sched_call.result # NoDate
              /\ dttm = NoDate
        /\ LET arg == IF dttm = NoDate THEN sched_call.result ELSE dttm
           IN sched_call' = [op |-> "following_schedule", dttm |-> arg,
                             previous_of |-> IF dttm = NoDate THEN sched_call.dttm
                                             ELSE NoDate,
                             result |-> following_schedule(schedule_interval,
                                                           dag_timezone, arg)]
        /\ UNCHANGED <<schedule_interval, dag_timezone>>
        /\ UNCHANGED <<graphVars, storeVars, bagVars, xcomVars, restVars, statVars>>

CallGetRunDates ==
    \E start_date \in Instants, end_date \in Instants, is_subdag \in BOOLEAN :
        /\ sched_call = NoCall
        /\ sched_call' = [op |-> "get_run_dates", start_date |-> start_date,
                          end_date |-> end_date, is_subdag |-> is_subdag,
                          result |-> get_run_dates(schedule_interval, dag_timezone,
                                                   is_subdag, start_date, end_date)]
        /\ UNCHANGED <<schedule_interval, dag_timezone>>
        /\ UNCHANGED <<graphVars, storeVars, bagVars, xcomVars, restVars, statVars>>

ScheduleInit ==
    /\ schedule_interval \in ScheduleIntervals
    /\ dag_timezone \in Timezones
    /\ sched_call = NoCall
    /\ GraphIdle /\ StoreIdle /\ BagIdle /\ XComIdle /\ RestIdle /\ StatIdle

ScheduleNext ==
    \/ CallPreviousSchedule
    \/ CallFollowingSchedule
    \/ CallGetRunDates

SpecSchedule == ScheduleInit /\ [][ScheduleNext]_vars

\* the instant is a firing of the schedule: its wall-clock time in the DAG's
\* zone matches the cron expression; adding a timedelta to a firing gives a
\* firing, so with a timedelta every instant can be one
ValidFiring(dttm) ==
    \/ schedule_interval.kind = "timedelta"
    \/ /\ schedule_interval.kind = "cron"
       /\ CronMatches(schedule_interval.at, make_naive(dttm, dag_timezone))

RoundTripMade ==
    /\ sched_call.op = "following_schedule"
    /\ sched_call.previous_of # NoDate
    /\ ValidFiring(sched_call.previous_of)

\* C11: following_schedule(previous_schedule(t)) = t for every firing t, for
\* timedelta and for cron intervals, also when the zone changes its offset
C11_FollowingOfPreviousIsIdentity ==
    RoundTripMade => sched_call.result = sched_call.previous_of

\* what does hold: the round trip is the identity for a timedelta, and for a
\* cron expression in a zone whose offset never changes
RoundTripWithoutTransition ==
    /\ RoundTripMade
    /\ \/ schedule_interval.kind = "timedelta"
       \/ dag_timezone.before = dag_timezone.after
    => sched_call.result = sched_call.previous_of

GetRunDatesCalled ==
    /\ sched_call.op = "get_run_dates"
    /\ ~sched_call.is_subdag

\* an instant the schedule is aligned to; for '@once' the first occurrence is
\* the start date itself
Aligned(dttm) == schedule_interval.kind = "None" \/ ValidFiring(dttm)

\* the first aligned instant not earlier than start (a cron expression fires
\* at least once in every local day and the offset moves by at most an hour)
FirstAligned(start) ==
    CHOOSE u \in start..(start + DayLen + 1) :
        /\ Aligned(u)
        /\ \A v \in start..(u - 1) : ~Aligned(v)

RunDatesAsSpecified(call) ==
    LET r == call.result.run_dates
    IN /\ call.result.status = "returned"
       /\ \A i \in 1..Len(r) : call.start_date <= r[i] /\ r[i] <= call.end_date
       /\ \A i \in 1..(Len(r) - 1) :
            /\ r[i] < r[i + 1]
            /\ r[i + 1] = following_schedule(schedule_interval, dag_timezone, r[i])
       /\ IF FirstAligned(call.start_date) <= call.end_date
          THEN Len(r) > 0 /\ r[1] = FirstAligned(call.start_date)
          ELSE r = <<>>
       /\ schedule_interval.kind = "None" => Len(r) <= 1

\* C19: get_run_dates(start, end) returns a finite, strictly increasing list
\* of instants of [start, end] that begins at the first aligned instant not
\* earlier than start and advances by following_schedule; with '@once' it
\* holds at most the first occurrence
C19_RunDatesAlignedAndIncreasing ==
    GetRunDatesCalled => RunDatesAsSpecified(sched_call)

\* what does hold: the list is as specified for a timedelta, for '@once', and
\* for a cron expression in a zone whose offset never changes
RunDatesWithoutTransition ==
    /\ GetRunDatesCalled
    /\ \/ schedule_interval.kind # "cron"
       \/ dag_timezone.before = dag_timezone.after
    => RunDatesAsSpecified(sched_call)

(***************************************************************************)
(* DagStat (dag_stat.py)                                                    *)
(***************************************************************************)
\* State.dag_states, in the order DagStat.create goes through them
dag_states == <<SUCCESS, RUNNING, FAILED>>

NewDagStat == [count |-> 0, dirty |-> FALSE]

\* the states of the DagStat rows of a DAG
StatStatesOf(stats, dagid) == {k[2] : k \in {x \in DOMAIN stats : x[1] = dagid}}

\* a unique (dag_id, execution_date) pair on dag_run: the insert of a run
\* whose pair the table already holds fails with an IntegrityError
UniqueViolationNever(rows, runs) == FALSE

UniqueViolation(rows, runs) ==
    \E r \in rows, n \in runs :
        r.dag_id = n.dag_id /\ r.execution_date = n.execution_date

\* session.commit() with the runs the session has added: the table afterwards,
\* or the IntegrityError that makes the caller roll back
SessionCommit(rows, runs) ==
    IF UniqueViolation(rows, runs)
    THEN [raised |-> TRUE, rows |-> rows]
    ELSE [raised |-> FALSE, rows |-> rows \cup runs]

\* the loop of DagStat.create over State.dag_states from the i-th on: states
\* are the states that had a row when create queried them, runs what the
\* session has added and not committed, lost whether a commit was rolled back
RECURSIVE DagStatCreateLoop(_, _, _, _, _, _, _)
DagStatCreateLoop(i, dagid, states, stats, rows, runs, lost) ==
    IF i > Len(dag_states)
    THEN [stats |-> stats, rows |-> rows, runs |-> runs, lost |-> lost]
    ELSE IF dag_states[i] \in states
    THEN DagStatCreateLoop(i + 1, dagid, states, stats, rows, runs, lost)
    ELSE LET c == SessionCommit(rows, runs)
         IN IF c.raised
            \* except Exception: session.rollback()
            THEN DagStatCreateLoop(i + 1, dagid, states, stats, rows, {}, TRUE)
            ELSE DagStatCreateLoop(i + 1, dagid, states,
                                   DictSet(stats, <<dagid, dag_states[i]>>, NewDagStat),
                                   c.rows, {}, lost)

\* DagStat.create(dag_id, session)
DagStatCreate(dagid, stats, rows, runs) ==
    DagStatCreateLoop(1, dagid, StatStatesOf(stats, dagid), stats, rows, runs, FALSE)

\* for stat in stats: stat.dirty = True
MarkNothing(dagid, stats) == stats

MarkDirty(dagid, stats) ==
    [k \in DOMAIN stats |->
        IF k[1] = dagid THEN [stats[k] EXCEPT !.dirty = TRUE] ELSE stats[k]]

\* the try block of DagStat.set_dirty after DagStat.create: mark, commit, and
\* roll everything back when the commit raises
DagStatMarkAndCommit(dagid, stats, rows, runs) ==
    LET c == SessionCommit(rows, runs)
    IN IF c.raised
       THEN [stats |-> stats, rows |-> rows, runs |-> {}, lost |-> TRUE]
       ELSE [stats |-> MarkDirty(dagid, stats), rows |-> c.rows, runs |-> {},
             lost |-> FALSE]

(***************************************************************************)
(* DAG.create_dagrun (dag.py) called by concurrent schedulers, each with    *)
(* its own session on the shared tables                                     *)
(***************************************************************************)
Schedulers == {"s1", "s2"}
RunDates == {1, 2}

\* the DAG whose runs are created
CreateDag == [dag_id |-> "d1", task_ids |-> {"t1", "t2"}, retries |-> 0]

\* run = DagRun(dag_id=self.dag_id, execution_date=execution_date, state=state);
\* session is the session that inserts it
NewDagRun(s, execution_date) ==
    [dag_id |-> CreateDag.dag_id, execution_date |-> execution_date,
     state |-> RUNNING, session |-> s]

IdleSession(autoflush) ==
    [pc |-> "idle", autoflush |-> autoflush, execution_date |-> 0, new |-> {},
     flushed |-> FALSE, lost |-> FALSE]

\* another session holds an uncommitted insert of the same pair: the insert waits
FlushedElsewhere(s, runs) ==
    \E o \in Schedulers \ {s} :
        sessions[o].flushed /\ UniqueViolation(sessions[o].new, runs)

\* run = DagRun(...); session.add(run)
CreateDagrunAdd(s) ==
    \E execution_date \in RunDates :
        /\ sessions[s].pc = "idle"
        /\ sessions' = [sessions EXCEPT ![s] =
                [@ EXCEPT !.pc = "added", !.execution_date = execution_date,
                          !.new = {NewDagRun(s, execution_date)}]]
        /\ UNCHANGED <<dag_stats, dag_models, dag_run_rows>>
        /\ UNCHANGED <<graphVars, storeVars, bagVars, xcomVars, restVars, schedVars>>

\* DagStat.set_dirty, first half: DagStat.create(dag_id, session).  With
\* autoflush its first query sends the insert of the run, which raises out of
\* create_dagrun on a committed duplicate
SetDirtyCreate(s) ==
    LET ses == sessions[s]
        r == DagStatCreate(CreateDag.dag_id, dag_stats, dag_run_rows, ses.new)
    IN /\ ses.pc = "added"
       /\ IF ses.autoflush /\ UniqueViolation(dag_run_rows, ses.new)
          THEN /\ sessions' = [sessions EXCEPT ![s] =
                      [@ EXCEPT !.pc = "raised", !.new = {}, !.lost = TRUE]]
               /\ UNCHANGED <<dag_stats, dag_run_rows>>
          ELSE /\ ses.autoflush => ~FlushedElsewhere(s, ses.new)
               /\ dag_stats' = r.stats
               /\ dag_run_rows' = r.rows
               /\ sessions' = [sessions EXCEPT ![s] =
                      [@ EXCEPT !.pc = "created", !.new = r.runs,
                                !.flushed = ses.autoflush /\ r.runs # {},
                                !.lost = r.lost]]
       /\ UNCHANGED dag_models
       /\ UNCHANGED <<graphVars, storeVars, bagVars, xcomVars, restVars, schedVars>>

StatRowsLockedNever(dagid) == FALSE

\* with_for_update(): a DagStat.update in another session has selected rows of
\* the DAG for update and not yet committed, so that the select waits
StatRowsLocked(dagid) ==
    \E u \in DOMAIN sessions \ Schedulers :
        \E k \in sessions[u].locked : k[1] = dagid

\* DagStat.set_dirty, second half: the rows of the DAG are selected for
\* update, marked and committed
SetDirtyMark(s) ==
    LET ses == sessions[s]
        r == DagStatMarkAndCommit(CreateDag.dag_id, dag_stats, dag_run_rows, ses.new)
    IN /\ ses.pc = "created"
       /\ ~StatRowsLocked(CreateDag.dag_id)
       /\ dag_stats' = r.stats
       /\ dag_run_rows' = r.rows
       /\ sessions' = [sessions EXCEPT ![s] =
              [@ EXCEPT !.pc = "marked", !.new = r.runs, !.flushed = FALSE,
                        !.lost = ses.lost \/ r.lost]]
       /\ UNCHANGED dag_models
       /\ UNCHANGED <<graphVars, storeVars, bagVars, xcomVars, restVars, schedVars>>

\* session.commit() of create_dagrun
CreateDagrunCommit(s) ==
    LET ses == sessions[s]
        c == SessionCommit(dag_run_rows, ses.new)
    IN /\ ses.pc = "marked"
       /\ dag_run_rows' = c.rows
       /\ sessions' = [sessions EXCEPT ![s] =
              [@ EXCEPT !.pc = IF c.raised THEN "raised" ELSE "committed",
                        !.new = {}, !.lost = ses.lost \/ c.raised]]
       /\ UNCHANGED <<dag_stats, dag_models>>
       /\ UNCHANGED <<graphVars, storeVars, bagVars, xcomVars, restVars, schedVars>>

\* run.verify_integrity(session): a TaskInstance for every task of the DAG
\* that has none at the run's execution date
verify_integrity(tis, dag, execution_date) ==
    LET keys == {<<dag.dag_id, t, execution_date>> : t \in dag.task_ids}
    IN [k \in DOMAIN tis \cup keys |->
            IF k \in DOMAIN tis THEN tis[k]
            ELSE [state |-> NONE, try_number |-> 0, max_tries |-> dag.retries,
                  job_id |-> NoJob, pool |-> "p1"]]

VerifyIntegrity(s) ==
    /\ sessions[s].pc = "committed"
    /\ task_instances' = verify_integrity(task_instances, CreateDag,
                                          sessions[s].execution_date)
    /\ sessions' = [sessions EXCEPT ![s] = [@ EXCEPT !.pc = "verified"]]
    /\ UNCHANGED <<jobs, dag_runs, pools, utcnow, store_call>>
    /\ UNCHANGED <<dag_stats, dag_models, dag_run_rows>>
    /\ UNCHANGED <<graphVars, bagVars, xcomVars, restVars, schedVars>>

\* run.refresh_from_db(); return run
CreateDagrunReturn(s) ==
    /\ sessions[s].pc = "verified"
    /\ sessions' = [sessions EXCEPT ![s] = [@ EXCEPT !.pc = "returned"]]
    /\ UNCHANGED <<dag_stats, dag_models, dag_run_rows>>
    /\ UNCHANGED <<graphVars, storeVars, bagVars, xcomVars, restVars, schedVars>>

\* the tables before the schedulers start: no DagStat row of the DAG, its
\* SUCCESS row only, or all its rows; no run, or the run of date 1 with its
\* TaskInstances
CreateInit ==
    /\ \E autoflush \in BOOLEAN :
        sessions = [s \in Schedulers |-> IdleSession(autoflush)]
    /\ \E S \in {{}, {SUCCESS}, Range(dag_states)}, dirty \in BOOLEAN :
        dag_stats = [k \in {CreateDag.dag_id} \X S |-> [count |-> 0, dirty |-> dirty]]
    /\ \/ /\ dag_run_rows = {}
          /\ task_instances = <<>>
       \/ /\ dag_run_rows = {NewDagRun("s0", 1)}
          /\ task_instances = verify_integrity(<<>>, CreateDag, 1)
    /\ dag_models = <<>>
    /\ jobs = <<>> /\ dag_runs = <<>> /\ pools = <<>> /\ utcnow = 0
    /\ store_call = NoCall
    /\ GraphIdle /\ BagIdle /\ XComIdle /\ RestIdle /\ SchedIdle

CreateNext ==
    \E s \in Schedulers :
        \/ CreateDagrunAdd(s)
        \/ SetDirtyCreate(s)
        \/ SetDirtyMark(s)
        \/ CreateDagrunCommit(s)
        \/ VerifyIntegrity(s)
        \/ CreateDagrunReturn(s)

SpecCreate == CreateInit /\ [][CreateNext]_vars

RunRowsOf(execution_date) ==
    {r \in dag_run_rows :
        r.dag_id = CreateDag.dag_id /\ r.execution_date = execution_date}

RunCommitted(s) ==
    NewDagRun(s, sessions[s].execution_date) \in dag_run_rows

\* the call of scheduler s has passed the marking of the stat rows
HasMarked(s) == sessions[s].pc \in {"marked", "committed", "verified", "returned"}

\* every DagStat row of the DAG exists and is dirty
StatsDirty ==
    \A state \in Range(dag_states) :
        /\ <<CreateDag.dag_id, state>> \in DOMAIN dag_stats
        /\ dag_stats[<<CreateDag.dag_id, state>>].dirty

InstancesExist(execution_date) ==
    \A t \in CreateDag.task_ids :
        <<CreateDag.dag_id, t, execution_date>> \in DOMAIN task_instances

SomeInstanceExists(execution_date) ==
    \E t \in CreateDag.task_ids :
        <<CreateDag.dag_id, t, execution_date>> \in DOMAIN task_instances

\* what create_dagrun has brought about when it returns, and that no
\* TaskInstance of a run exists before the run's row is committed
CreateDagrunOutcome ==
    /\ \A s \in Schedulers :
        sessions[s].pc \in {"verified", "returned"} /\ ~sessions[s].lost
        => RunCommitted(s) /\ StatsDirty /\ InstancesExist(sessions[s].execution_date)
    /\ \A execution_date \in RunDates :
        SomeInstanceExists(execution_date) => RunRowsOf(execution_date) # {}

StatsToUpdate(stats, dag_ids, dirty_only) ==
    {k \in DOMAIN stats :
        /\ dag_ids # {} => k[1] \in dag_ids
        /\ dirty_only => stats[k].dirty}

\* session.query(DagRun.dag_id, DagRun.state, func.count('*')) grouped by
\* dag_id and state, read at one pair; 0 when the pair is not in counts
CountAlwaysZero(runs, dagid, state) == 0

CountDagRuns(runs, dagid, state) ==
    Cardinality({r \in DOMAIN runs : r[1] = dagid /\ runs[r].state = state})

\* DagStat.update(dag_ids, dirty_only, session) when nothing raises
DagStatUpdate(stats, runs, dag_ids, dirty_only) ==
    LET ids == {k[1] : k \in StatsToUpdate(stats, dag_ids, dirty_only)}
        dagstat_states == ids \X Range(dag_states)
    IN IF ids = {} THEN stats
       ELSE [k \in DOMAIN stats \cup dagstat_states |->
                IF k \in dagstat_states
                THEN [count |-> CountDagRuns(runs, k[1], k[2]), dirty |-> FALSE]
                ELSE stats[k]]

(***************************************************************************)
(* DAG.clear and DAG.set_dag_runs_state (dag.py)                            *)
(***************************************************************************)
\* SQL LIKE: '_' stands for any one character and '%' for any string
RECURSIVE sql_like(_, _)
sql_like(value, pattern) ==
    IF pattern = <<>> THEN value = <<>>
    ELSE IF Head(pattern) = "%"
    THEN \E i \in 0..Len(value) :
            sql_like(SubSeq(value, i + 1, Len(value)), Tail(pattern))
    ELSE /\ value # <<>>
         /\ Head(pattern) = "_" \/ Head(pattern) = Head(value)
         /\ sql_like(Tail(value), Tail(pattern))

\* dag ids, as sequences of characters: the DAG that is cleared, its sub-DAG,
\* and another DAG
DagX == <<"d", "_", "x">>
DagXSub == <<"d", "_", "x", ".", "s">>
DagOther == <<"d", "1", "x">>

\* the DAG clear is called on: self.dag_id, its tasks with their retries, and
\* self.subdags
ClearedDag ==
    [given |-> TRUE, dag_id |-> DagX, retries |-> ("t1" :> 1),
     subdags |-> {[dag_id |-> DagXSub, task_ids |-> {"t2"}]}]

DagClearTIKeys ==
    {<<DagX, "t1", 1>>, <<DagX, "t1", 2>>, <<DagXSub, "t2", 1>>, <<DagOther, "t1", 1>>}

\* the filter on dag_id and task_id
ClearDagFilter(dag, key, include_subdags) ==
    IF include_subdags
    THEN \E d \in dag.subdags \cup {[dag_id |-> dag.dag_id, task_ids |-> DOMAIN dag.retries]} :
            sql_like(key[1], d.dag_id) /\ key[2] \in d.task_ids
    ELSE key[1] = dag.dag_id /\ key[2] \in DOMAIN dag.retries

\* if start_date: ... >= start_date; if end_date: ... <= end_date
ClearDateFilter(execution_date, start_date, end_date) ==
    /\ start_date # NoDate => execution_date >= start_date
    /\ end_date # NoDate => execution_date <= end_date

\* if only_failed: state == FAILED; if only_running: state == RUNNING
ClearStateFilterNone(state, only_failed, only_running) == TRUE

ClearStateFilter(state, only_failed, only_running) ==
    /\ only_failed => state = FAILED
    /\ only_running => state = RUNNING

\* the TaskInstances the query of DAG.clear selects
DagClearSelection(dag, rows, start_date, end_date, only_failed, only_running, include_subdags) ==
    {k \in DOMAIN rows :
        /\ ClearDagFilter(dag, k, include_subdags)
        /\ ClearDateFilter(k[3], start_date, end_date)
        /\ ClearStateFilter(rows[k].state, only_failed, only_running)}

\* DAG.set_dag_runs_state(state=RUNNING): the rows it loads are DagModel rows,
\* which have no state column, so that only DagStat.update(dirty_ids) acts on
\* the tables; runs is what its count query reads
set_dag_runs_state(dag, models, stats, runs) ==
    LET dirty_ids == {d \in DOMAIN models : d = dag.dag_id}
    IN DagStatUpdate(stats, runs, dirty_ids, TRUE)

\* DAG.clear(start_date, end_date, only_failed, only_running, confirm_prompt,
\* include_subdags, reset_dag_runs, dry_run); answer is what the user replies
\* to the prompt, and autoflush whether the session sends the pending DagRun
\* changes before the count query of DagStat.update
DagClear ==
    \E start_date \in {NoDate, 2}, end_date \in {NoDate, 1},
       only_failed \in BOOLEAN, only_running \in BOOLEAN,
       include_subdags \in BOOLEAN, reset_dag_runs \in BOOLEAN, dry_run \in BOOLEAN,
       answer \in {"no prompt", "yes", "no"}, autoflush \in BOOLEAN :
        LET tis == DagClearSelection(ClearedDag, task_instances, start_date, end_date,
                                     only_failed, only_running, include_subdags)
            count == Cardinality(tis)
            do_it == ~dry_run /\ count > 0 /\ answer # "no"
        IN /\ store_call = NoCall
           /\ IF do_it
              THEN clear_task_instances(tis, TRUE, ClearedDag)
              ELSE UNCHANGED <<task_instances, jobs, dag_runs>>
           /\ dag_stats' =
                IF do_it /\ reset_dag_runs
                THEN set_dag_runs_state(ClearedDag, dag_models, dag_stats,
                                        IF autoflush THEN dag_runs' ELSE dag_runs)
                ELSE dag_stats
           /\ store_call' =
                [op |-> "clear", start_date |-> start_date, end_date |-> end_date,
                 only_failed |-> only_failed, only_running |-> only_running,
                 include_subdags |-> include_subdags,
                 reset_dag_runs |-> reset_dag_runs, dry_run |-> dry_run,
                 answer |-> answer,
                 returned_tis |-> IF dry_run THEN tis ELSE {},
                 returned_count |-> IF do_it THEN count ELSE 0,
                 before |-> [task_instances |-> task_instances, jobs |-> jobs,
                             dag_runs |-> dag_runs, dag_stats |-> dag_stats]]
           /\ UNCHANGED <<pools, utcnow>>
           /\ UNCHANGED <<dag_models, dag_run_rows, sessions>>
           /\ UNCHANGED <<graphVars, bagVars, xcomVars, restVars, schedVars>>

DagClearInit ==
    /\ \E s1 \in {RUNNING, FAILED, SUCCESS}, s2 \in {FAILED, SUCCESS},
          s3 \in {RUNNING, FAILED} :
        task_instances =
            [k \in DagClearTIKeys |->
                [state |-> CASE k = <<DagX, "t1", 1>> -> s1
                             [] k = <<DagX, "t1", 2>> -> s2
                             [] k = <<DagXSub, "t2", 1>> -> s3
                             [] OTHER -> FAILED,
                 try_number |-> 1, max_tries |-> 0, job_id |-> 1, pool |-> "p1"]]
    /\ jobs = [j \in {1} |-> [state |-> RUNNING, latest_heartbeat |-> 0]]
    /\ dag_runs = [r \in {<<k[1], k[3]>> : k \in DagClearTIKeys} |->
                      [state |-> SUCCESS, start_date |-> 0]]
    /\ \E S \in {{}, Range(dag_states)}, dirty \in BOOLEAN :
        dag_stats = [k \in {DagX} \X S |->
                        [count |-> IF k[2] = SUCCESS THEN 2 ELSE 0, dirty |-> dirty]]
    /\ \E M \in {{}, {DagX}} :
        dag_models = [d \in M |-> [fileloc |-> "f1", last_expired |-> NoDate]]
    /\ dag_run_rows = {} /\ sessions = <<>>
    /\ pools = <<>>
    /\ utcnow = 1
    /\ store_call = NoCall
    /\ GraphIdle /\ BagIdle /\ XComIdle /\ RestIdle /\ SchedIdle

DagClearNext ==
    \/ DagClear

SpecDagClear == DagClearInit /\ [][DagClearNext]_vars

DagClearCalled == store_call.op = "clear"

\* the instances of the cleared DAG (and of its sub-DAGs when they are
\* included) inside the date range and with the state asked for
ExpectedSelection(call) ==
    {k \in DOMAIN call.before.task_instances :
        /\ ClearDagFilter(ClearedDag, k, call.include_subdags)
        /\ call.start_date # NoDate => k[3] >= call.start_date
        /\ call.end_date # NoDate => k[3] <= call.end_date
        /\ call.only_failed => call.before.task_instances[k].state = FAILED
        /\ call.only_running => call.before.task_instances[k].state = RUNNING}

C18_SuppressedResetLeavesDagRuns ==
    DagClearCalled /\ ~store_call.dry_run /\ ~store_call.reset_dag_runs =>
        dag_runs = store_call.before.dag_runs

\* what the code does: whenever instances are cleared, the DagRuns of their
\* dag ids and execution dates are RUNNING afterwards, whatever reset_dag_runs
ClearResetsRunsWhateverTheFlag ==
    DagClearCalled /\ store_call.returned_count > 0 =>
        \A k \in ExpectedSelection(store_call) :
            /\ dag_runs[<<k[1], k[3]>>].state = RUNNING
            /\ dag_runs[<<k[1], k[3]>>].start_date = utcnow

StatDagIds == {"d1", "d2"}
StatRunKeys == {<<"d1", 1>>, <<"d1", 2>>, <<"d2", 1>>}

\* a count that no longer matches the DagRun rows
StaleCount == 7

\* DagStat.set_dirty(dag_id) with nothing else pending in the session
CallSetDirty ==
    \E dagid \in StatDagIds :
        /\ store_call = NoCall
        /\ dag_stats' = MarkDirty(dagid, DagStatCreate(dagid, dag_stats, {}, {}).stats)
        /\ store_call' = [op |-> "set_dirty", dag_id |-> dagid]
        /\ UNCHANGED <<task_instances, jobs, dag_runs, pools, utcnow>>
        /\ UNCHANGED <<dag_models, dag_run_rows, sessions>>
        /\ UNCHANGED <<graphVars, bagVars, xcomVars, restVars, schedVars>>

\* DagStat.update(dag_ids, dirty_only); an empty dag_ids stands for None or []
CallDagStatUpdate ==
    \E dag_ids \in SUBSET StatDagIds, dirty_only \in BOOLEAN :
        /\ store_call.op \in {"none", "set_dirty"}
        /\ dag_stats' = DagStatUpdate(dag_stats, dag_runs, dag_ids, dirty_only)
        /\ store_call' = [op |-> "update", dag_ids |-> dag_ids,
                          dirty_only |-> dirty_only,
                          before |-> [dag_stats |-> dag_stats]]
        /\ UNCHANGED <<task_instances, jobs, dag_runs, pools, utcnow>>
        /\ UNCHANGED <<dag_models, dag_run_rows, sessions>>
        /\ UNCHANGED <<graphVars, bagVars, xcomVars, restVars, schedVars>>

\* every DAG has no DagStat row or all of them, each dirty or not, with counts
\* from before the DagRun rows were last written
DagStatInit ==
    /\ \E s1 \in Range(dag_states), s2 \in Range(dag_states) :
        dag_runs = [r \in StatRunKeys |->
                      [state |-> CASE r = <<"d1", 1>> -> s1
                                   [] r = <<"d1", 2>> -> s2
                                   [] OTHER -> SUCCESS,
                       start_date |-> 0]]
    /\ \E D \in SUBSET StatDagIds :
        dag_stats \in [D \X Range(dag_states) -> [count : {StaleCount}, dirty : BOOLEAN]]
    /\ task_instances = <<>> /\ jobs = <<>> /\ pools = <<>> /\ utcnow = 0
    /\ store_call = NoCall
    /\ dag_models = <<>> /\ dag_run_rows = {} /\ sessions = <<>>
    /\ GraphIdle /\ BagIdle /\ XComIdle /\ RestIdle /\ SchedIdle

DagStatNext ==
    \/ CallSetDirty
    \/ CallDagStatUpdate

SpecDagStat == DagStatInit /\ [][DagStatNext]_vars

UpdateCalled == store_call.op = "update" /\ store_call.dirty_only

HadDirtyRow(dagid) ==
    \E k \in DOMAIN store_call.before.dag_stats :
        k[1] = dagid /\ store_call.before.dag_stats[k].dirty

\* the number of DagRun rows of the DAG in the state, counted row by row
RECURSIVE ExactCount(_, _, _)
ExactCount(keys, dagid, state) ==
    IF keys = {} THEN 0
    ELSE LET r == CHOOSE x \in keys : TRUE
         IN (IF r[1] = dagid /\ dag_runs[r].state = state THEN 1 ELSE 0)
            + ExactCount(keys \ {r}, dagid, state)

Reconciled(dagid) ==
    \A state \in Range(dag_states) :
        /\ <<dagid, state>> \in DOMAIN dag_stats
        /\ dag_stats[<<dagid, state>>].count = ExactCount(DOMAIN dag_runs, dagid, state)
        /\ ~dag_stats[<<dagid, state>>].dirty

LeftAlone(dagid) ==
    \A k \in DOMAIN dag_stats \cup DOMAIN store_call.before.dag_stats :
        k[1] = dagid =>
            /\ k \in DOMAIN dag_stats /\ k \in DOMAIN store_call.before.dag_stats
            /\ dag_stats[k] = store_call.before.dag_stats[k]

\* C14 as stated: after DagStat.update with dirty_only=True every DAG that had
\* a dirty row has, for every state of State.dag_states, the exact count of its
\* DagRun rows and a clear dirty flag, and the rows of the other DAGs are as
\* they were
C14_UpdateReconcilesEveryDirtyDag ==
    UpdateCalled =>
        \A dagid \in StatDagIds :
            IF HadDirtyRow(dagid) THEN Reconciled(dagid) ELSE LeftAlone(dagid)

\* C14 as the code does it: the DAGs reconciled are those that had a dirty row
\* and are named in dag_ids (every such DAG when dag_ids is empty or None);
\* the rows of every other DAG are as they were
C14_UpdateReconcilesDirtyDagsOfDagIds ==
    UpdateCalled =>
        \A dagid \in StatDagIds :
            IF /\ HadDirtyRow(dagid)
               /\ store_call.dag_ids # {} => dagid \in store_call.dag_ids
            THEN Reconciled(dagid)
            ELSE LeftAlone(dagid)

\* d1 had a dirty row and stale counts and now counts its two runs exactly,
\* while d2, which had no dirty row, keeps its stale count
C14_Witness ==
    /\ UpdateCalled /\ store_call.dag_ids = {}
    /\ HadDirtyRow("d1") /\ ~HadDirtyRow("d2")
    /\ dag_runs[<<"d1", 1>>].state = FAILED /\ dag_runs[<<"d1", 2>>].state = FAILED
    /\ dag_stats[<<"d1", FAILED>>] = [count |-> 2, dirty |-> FALSE]
    /\ dag_stats[<<"d1", SUCCESS>>] = [count |-> 0, dirty |-> FALSE]
    /\ <<"d2", SUCCESS>> \in DOMAIN dag_stats
    /\ dag_stats[<<"d2", SUCCESS>>] = [count |-> StaleCount, dirty |-> FALSE]

(***************************************************************************)
(* DagBag.get_dag and DagBag.process_file on a bag that DagBag.__init__ has *)
(* filled, while time passes, files are edited and DAGs are marked expired  *)
(***************************************************************************)
NoOrmDag == [found |-> FALSE]

\* DagModel.get_current(dag_id)
get_current(models, dagid) ==
    IF dagid \in DOMAIN models
    THEN [found |-> TRUE, fileloc |-> models[dagid].fileloc,
          last_expired |-> models[dagid].last_expired]
    ELSE NoOrmDag

\* orm_dag.last_expired and dag.last_loaded < orm_dag.last_expired
IsExpiredNever(dag, orm_dag) == FALSE

IsExpired(dag, orm_dag) ==
    orm_dag.last_expired # NoDate /\ dag.last_loaded < orm_dag.last_expired

\* self.dags.get(dag_id)
DagsGet(dags, dagid) ==
    IF dagid \in DOMAIN dags THEN [found |-> TRUE, dag |-> dags[dagid]]
    ELSE [found |-> FALSE]

\* DagBag.get_dag(dag_id) for a DAG that is no sub-DAG: the bag afterwards,
\* what is returned, and whether the source file was processed
get_dag(bag, folder, models, dagid) ==
    LET orm_dag == get_current(models, dagid)
    IN IF /\ orm_dag.found
          /\ \/ dagid \notin DOMAIN bag.dags
             \/ IsExpired(bag.dags[dagid], orm_dag)
       THEN LET r == process_file(bag, folder, orm_dag.fileloc, FALSE)
            IN IF dagid \in r.found_dags
               THEN [bag |-> r.bag, returned |-> DagsGet(r.bag.dags, dagid),
                     processed |-> TRUE]
               ELSE LET dags == [d \in DOMAIN r.bag.dags \ {dagid} |-> r.bag.dags[d]]
                    IN [bag |-> [r.bag EXCEPT !.dags = dags],
                        returned |-> DagsGet(dags, dagid), processed |-> TRUE]
       ELSE [bag |-> bag, returned |-> DagsGet(bag.dags, dagid), processed |-> FALSE]

\* whether the call before this one was a get_dag of the same DAG that
\* returned it (nothing was marked expired in between)
JustGot(dagid) ==
    /\ bag_call.op = "get_dag"
    /\ bag_call.dag_id = dagid
    /\ bag_call.returned.found

GetDag ==
    \E dagid \in {"d1", "d2"} :
        LET r == get_dag(TheBag, files, dag_models, dagid)
        IN /\ bag_dags' = r.bag.dags
           /\ file_last_changed' = r.bag.file_last_changed
           /\ import_errors' = r.bag.import_errors
           /\ bag_call' = [op |-> "get_dag", dag_id |-> dagid,
                           orm_dag |-> get_current(dag_models, dagid),
                           returned |-> r.returned, processed |-> r.processed,
                           repeated |-> JustGot(dagid), before |-> TheBag,
                           folder |-> files, at |-> utcnow]
           /\ UNCHANGED files
           /\ UNCHANGED <<graphVars, storeVars, xcomVars, restVars, schedVars, statVars>>

CallProcessFile ==
    \E filepath \in Paths, only_if_updated \in BOOLEAN :
        LET r == process_file(TheBag, files, filepath, only_if_updated)
        IN /\ bag_dags' = r.bag.dags
           /\ file_last_changed' = r.bag.file_last_changed
           /\ import_errors' = r.bag.import_errors
           /\ bag_call' = [op |-> "process_file", filepath |-> filepath,
                           only_if_updated |-> only_if_updated,
                           found_dags |-> r.found_dags, imported |-> r.imported,
                           before |-> TheBag, folder |-> files, at |-> utcnow]
           /\ UNCHANGED files
           /\ UNCHANGED <<graphVars, storeVars, xcomVars, restVars, schedVars, statVars>>

\* the DAG is marked expired (its "refresh" was asked for): last_expired = now
ExpireDag ==
    \E dagid \in DOMAIN dag_models :
        /\ dag_models[dagid].last_expired # utcnow
        /\ dag_models' = [dag_models EXCEPT ![dagid].last_expired = utcnow]
        /\ bag_call' = [op |-> "expire", dag_id |-> dagid]
        /\ UNCHANGED <<dag_stats, dag_run_rows, sessions>>
        /\ UNCHANGED <<bag_dags, file_last_changed, import_errors, files>>
        /\ UNCHANGED <<graphVars, storeVars, xcomVars, restVars, schedVars>>

\* time passes
Tick ==
    /\ utcnow < MaxClock
    /\ utcnow' = utcnow + 1
    /\ UNCHANGED <<task_instances, jobs, dag_runs, pools, store_call>>
    /\ UNCHANGED <<graphVars, bagVars, xcomVars, restVars, schedVars, statVars>>

\* DagBag(dag_folder): the bag after the collect_dags of __init__ at time 1,
\* over a folder that holds the files or one that does not hold them yet, and
\* the DagModel row of the DAG of f1, the file that is edited later on (the
\* DAG of f2 has no row)
BagCacheInit ==
    /\ utcnow = 1
    /\ \E content \in {"dag", "raises"} :
        files = [path \in Paths |->
                    [mtime |-> 0, content |-> IF path = "f1" THEN content ELSE "dag"]]
    /\ \E in_folder \in BOOLEAN :
        LET empty == [dags |-> <<>>, file_last_changed |-> <<>>, import_errors |-> <<>>]
            r == IF in_folder THEN CollectFrom(1, empty, files, FALSE, {})
                 ELSE [bag |-> empty]
        IN /\ bag_dags = r.bag.dags
           /\ file_last_changed = r.bag.file_last_changed
           /\ import_errors = r.bag.import_errors
    /\ bag_call = [op |-> "init"]
    /\ dag_models = [d \in {"d1"} |-> [fileloc |-> "f1", last_expired |-> NoDate]]
    /\ dag_stats = <<>> /\ dag_run_rows = {} /\ sessions = <<>>
    /\ task_instances = <<>> /\ jobs = <<>> /\ dag_runs = <<>> /\ pools = <<>>
    /\ store_call = NoCall
    /\ GraphIdle /\ XComIdle /\ RestIdle /\ SchedIdle

BagCacheNext ==
    \/ GetDag
    \/ CallProcessFile
    \/ ExpireDag
    \/ EditFileAt("f1")
    \/ Tick

SpecBagCache == BagCacheInit /\ [][BagCacheNext]_vars

GetDagCalled == bag_call.op = "get_dag"

WasCached(call) == call.dag_id \in DOMAIN call.before.dags

\* the stored DAG record has a last_expired later than the cached DAG's last_loaded
WasExpired(call) ==
    /\ WasCached(call)
    /\ call.orm_dag.found
    /\ call.orm_dag.last_expired # NoDate
    /\ call.orm_dag.last_expired > call.before.dags[call.dag_id].last_loaded

\* the cached DAG is returned and the source is not processed
ServedFromCache(call) ==
    /\ ~call.processed
    /\ call.returned = [found |-> TRUE, dag |-> call.before.dags[call.dag_id]]
    /\ TheBag = call.before

\* the source was processed and the DAG returned is the one loaded just now
ServedFresh(call) ==
    /\ call.processed
    /\ call.returned.found
    /\ call.returned.dag.last_loaded = call.at
    /\ call.returned.dag.last_loaded >= call.orm_dag.last_expired
    /\ bag_dags[call.dag_id] = call.returned.dag

\* C15 as stated: get_dag returns the cached DAG without processing its source
\* unless last_expired is later than last_loaded; then it processes the source
\* and returns the freshly loaded DAG, whose last_loaded is not earlier than
\* last_expired, and a second get_dag with no new expiry does not reload
C15_GetDagReloadsExpired ==
    GetDagCalled =>
        /\ WasCached(bag_call) /\ ~WasExpired(bag_call) => ServedFromCache(bag_call)
        /\ WasExpired(bag_call) => ServedFresh(bag_call)
        /\ bag_call.repeated => ~bag_call.processed

\* C15 as the code does it: on expiry the source is processed; the fresh DAG
\* is returned when the file still defines it, and otherwise the DAG is taken
\* out of the bag and None is returned
C15_GetDagReloadsOrDropsExpired ==
    GetDagCalled =>
        /\ WasCached(bag_call) /\ ~WasExpired(bag_call) => ServedFromCache(bag_call)
        /\ WasExpired(bag_call) =>
            IF bag_call.folder[bag_call.orm_dag.fileloc].content = "dag"
            THEN ServedFresh(bag_call)
            ELSE /\ bag_call.processed
                 /\ ~bag_call.returned.found
                 /\ bag_call.dag_id \notin DOMAIN bag_dags
        /\ bag_call.repeated => ~bag_call.processed

\* d1, in the bag and marked expired after it was loaded, is asked for while
\* its file still defines it: the file is processed and the fresh DAG returned
C15_Witness ==
    /\ GetDagCalled /\ bag_call.dag_id = "d1"
    /\ WasExpired(bag_call)
    /\ ServedFresh(bag_call)
    /\ bag_call.returned.dag.last_loaded > bag_call.before.dags["d1"].last_loaded

ProcessFileCalled == bag_call.op = "process_file"

\* the modification time of the path is the one recorded when it was last processed
SameMtime(call) ==
    /\ call.filepath \in DOMAIN call.before.file_last_changed
    /\ call.before.file_last_changed[call.filepath] = call.folder[call.filepath].mtime

\* C16: process_file with only_if_updated=True on a path whose modification
\* time is the recorded one imports nothing, returns an empty list and leaves
\* dags and import_errors as they were; in every other case the file is
\* processed again
C16_ProcessFileSkipsUnchangedFile ==
    ProcessFileCalled =>
        LET path == bag_call.filepath
            file == bag_call.folder[path]
        IN IF bag_call.only_if_updated /\ SameMtime(bag_call)
           THEN /\ ~bag_call.imported
                /\ bag_call.found_dags = {}
                /\ bag_dags = bag_call.before.dags
                /\ import_errors = bag_call.before.import_errors
           ELSE /\ path \in DOMAIN file_last_changed
                /\ file_last_changed[path] = file.mtime
                /\ file.content # "plain" => bag_call.imported
                /\ file.content = "dag" =>
                    /\ bag_call.found_dags = {DagIdOf(path)}
                    /\ DagIdOf(path) \in DOMAIN bag_dags
                    /\ bag_dags[DagIdOf(path)].last_loaded = bag_call.at
                /\ file.content \in {"raises", "hangs"} =>
                    /\ bag_call.found_dags = {}
                    /\ path \in DOMAIN import_errors

\* f1, processed at time 1 and not edited since, is handed to process_file
\* with only_if_updated at a later time: d1 keeps its last_loaded of time 1
C16_Witness ==
    /\ ProcessFileCalled /\ bag_call.filepath = "f1" /\ bag_call.only_if_updated
    /\ SameMtime(bag_call)
    /\ bag_call.folder["f1"].content = "dag"
    /\ bag_call.at > 1
    /\ "d1" \in DOMAIN bag_dags /\ bag_dags["d1"].last_loaded = 1
    /\ ~bag_call.imported

(***************************************************************************)
(* DAG.handle_callback: the success / failure callback of a finished DagRun *)
(***************************************************************************)
\* a callback is None, a callable that returns or a callable that raises
CallbackKinds == {"None", "returns", "raises"}
CallbackTaskIds == {"t1", "t2"}
CallbackRun == <<"d1", 1>>
CallbackReasons == {"success", "task_failure"}

\* DAG.get_task(task_id)
get_task(dict, task_id) ==
    IF task_id \in DOMAIN dict
    THEN [raised |-> FALSE, task |-> dict[task_id]]
    ELSE [raised |-> TRUE, exception |-> "AirflowException"]

\* dagrun.get_task_instances(session): the rows of the run's dag_id and
\* execution_date, in one of the orders the query can return them in
get_task_instances(rows, run) ==
    LET keys == {k \in DOMAIN rows : k[1] = run[1] /\ k[3] = run[2]}
    IN {tis \in UNION {[1..n -> keys] : n \in 0..Cardinality(keys)} :
            /\ Len(tis) = Cardinality(keys)
            /\ \A i, j \in 1..Len(tis) : i # j => tis[i] # tis[j]}

\* DAG.handle_callback(dagrun, success, reason), tis being what
\* dagrun.get_task_instances returned: how the call ends, what was logged and
\* the contexts the callback was called with
handle_callback(cbs, dict, tis, success, reason) ==
    LET callback == IF success THEN cbs.on_success_callback ELSE cbs.on_failure_callback
    IN IF callback = "None"
       THEN [outcome |-> "returned", logged |-> <<>>, called |-> <<>>]
       ELSE LET logged == <<"Executing dag callback function">>
            IN IF tis = <<>>
               THEN [outcome |-> "raised", exception |-> "IndexError",
                     logged |-> logged, called |-> <<>>]
               ELSE LET ti == tis[Len(tis)]
                        found == get_task(dict, ti[2])
                    IN IF found.raised
                       THEN [outcome |-> "raised", exception |-> found.exception,
                             logged |-> logged, called |-> <<>>]
                       ELSE LET context == [ti |-> ti, task |-> found.task,
                                            reason |-> reason]
                            IN IF callback = "raises"
                               THEN [outcome |-> "raised", exception |-> "CallbackError",
                                     logged |-> logged, called |-> <<context>>]
                               ELSE [outcome |-> "returned", logged |-> logged,
                                     called |-> <<context>>]

CallHandleCallback ==
    \E success \in BOOLEAN, reason \in CallbackReasons :
      \E tis \in get_task_instances(task_instances, CallbackRun) :
        /\ graph_call' = [op |-> "handle_callback", success |-> success,
                          reason |-> reason, tis |-> tis,
                          result |-> handle_callback(callbacks, task_dict, tis,
                                                     success, reason)]
        /\ UNCHANGED <<dag_id, task_ids, upstream_task_ids, downstream_task_ids, dagObjVars>>
        /\ UNCHANGED <<storeVars, bagVars, xcomVars, restVars, schedVars, statVars>>

\* a DAG with its callbacks and tasks, and a finished DagRun with the task
\* instances the table holds for it
CallbackInit ==
    /\ dag_id = CallbackRun[1]
    /\ callbacks \in [on_success_callback : CallbackKinds,
                      on_failure_callback : CallbackKinds]
    /\ \E T \in SUBSET CallbackTaskIds :
        /\ task_dict = [t \in T |-> t]
        /\ \E order \in {<<"t1", "t2">>, <<"t2", "t1">>} : task_ids = ListFilter(order, T)
        /\ task_count = Cardinality(T)
    /\ upstream_task_ids = [t \in DOMAIN task_dict |-> {}]
    /\ downstream_task_ids = [t \in DOMAIN task_dict |-> {}]
    /\ dag_dates = <<>> /\ operators = <<>>
    /\ graph_call = NoCall
    /\ \E T \in SUBSET CallbackTaskIds :
        task_instances = [k \in {<<CallbackRun[1], t, CallbackRun[2]>> : t \in T} |->
                            [state |-> SUCCESS, try_number |-> 1, max_tries |-> 0,
                             job_id |-> NoJob, pool |-> "p1"]]
    /\ \E state \in {SUCCESS, FAILED} :
        dag_runs = [r \in {CallbackRun} |-> [state |-> state, start_date |-> 0]]
    /\ jobs = <<>> /\ pools = <<>> /\ utcnow = 1 /\ store_call = NoCall
    /\ BagIdle /\ XComIdle /\ RestIdle /\ SchedIdle /\ StatIdle

CallbackNext ==
    \/ CallHandleCallback

SpecCallback == CallbackInit /\ [][CallbackNext]_vars

HandleCallbackCalled == graph_call.op = "handle_callback"

\* C21: handle_callback never propagates an exception to its caller: when
\* the configured callback raises, or the run has no task instance to build
\* the context from, the failure is logged and the call returns
C21_HandleCallbackNeverRaises ==
    HandleCallbackCalled => graph_call.result.outcome = "returned"

\* what does hold: the call returns when no callback is configured, and when
\* the callback returns for a run whose last instance is of a task of the DAG
HandleCallbackReturnsInTheGoodCase ==
    HandleCallbackCalled =>
        LET callback == IF graph_call.success THEN callbacks.on_success_callback
                        ELSE callbacks.on_failure_callback
            tis == graph_call.tis
        IN \/ callback = "None"
           \/ /\ callback = "returns" /\ tis # <<>>
              /\ tis[Len(tis)][2] \in DOMAIN task_dict
           => /\ graph_call.result.outcome = "returned"
              /\ Len(graph_call.result.called) = (IF callback = "None" THEN 0 ELSE 1)

(***************************************************************************)
(* SkipMixin.skip (skip_mixin.py), next to DagBag.kill_zombies              *)
(***************************************************************************)
NoDagRun == <<>>

\* the operators handed to skip: each knows its DAG and its task id
SkipTasks == {[dag_id |-> "d1", task_id |-> "t1"], [dag_id |-> "d2", task_id |-> "t2"]}

\* TaskInstance(task, execution_date), its state set to SKIPPED
SkippedInstance == [state |-> SKIPPED, try_number |-> 0, max_tries |-> 0,
                    job_id |-> NoJob, pool |-> "p1"]

\* session.merge(ti): the row of the instance's key takes the instance's values
SkipMerge(rows, key) ==
    IF key \in DOMAIN rows
    THEN [rows EXCEPT ![key] = [SkippedInstance EXCEPT !.job_id = rows[key].job_id]]
    ELSE [k \in DOMAIN rows \cup {key} |-> IF k = key THEN SkippedInstance ELSE rows[k]]

RECURSIVE SkipMergeAll(_, _, _)
SkipMergeAll(rows, tasks, execution_date) ==
    IF tasks = {} THEN rows
    ELSE LET task == CHOOSE t \in tasks : TRUE
         IN SkipMergeAll(SkipMerge(rows, <<task.dag_id, task.task_id, execution_date>>),
                         tasks \ {task}, execution_date)

SkipUpdateSelectionAnyDate(rows, dag_run, ids) ==
    {k \in DOMAIN rows : k[1] = dag_run[1] /\ k[2] \in ids}

\* the rows that the filter of the update selects
SkipUpdateSelection(rows, dag_run, ids) ==
    {k \in DOMAIN rows : k[1] = dag_run[1] /\ k[3] = dag_run[2] /\ k[2] \in ids}

\* SkipMixin.skip(dag_run, execution_date, tasks): how it ends and the
\* TaskInstance rows afterwards (start_date and end_date, set to now, are no
\* fields of the rows of this model)
skip(rows, dag_run, execution_date, tasks) ==
    IF tasks = {} THEN [outcome |-> "returned", rows |-> rows]
    ELSE LET ids == {d.task_id : d \in tasks}
         IN IF dag_run # NoDagRun
            THEN LET sel == SkipUpdateSelection(rows, dag_run, ids)
                 IN [outcome |-> "returned",
                     rows |-> [k \in DOMAIN rows |->
                                 IF k \in sel THEN [rows[k] EXCEPT !.state = SKIPPED]
                                 ELSE rows[k]]]
            ELSE IF execution_date = NoDate
                 THEN [outcome |-> "raised", exception |-> "AssertionError", rows |-> rows]
                 ELSE [outcome |-> "returned",
                       rows |-> SkipMergeAll(rows, tasks, execution_date)]

\* the rows that skip writes: the selection of the update, or the keys merged
SkipWritten(rows, dag_run, execution_date, tasks) ==
    IF tasks = {} THEN {}
    ELSE IF dag_run # NoDagRun
    THEN SkipUpdateSelection(rows, dag_run, {d.task_id : d \in tasks})
    ELSE IF execution_date = NoDate THEN {}
    ELSE {<<task.dag_id, task.task_id, execution_date>> : task \in tasks}

\* now = timezone.utcnow(), read once; start_date and end_date of every row written
SkipDates(rows, dag_run, execution_date, tasks, now) ==
    [k \in SkipWritten(rows, dag_run, execution_date, tasks) |->
        [start_date |-> now, end_date |-> now]]

\* the statements that skip sends to the session, in order
SkipStatements(dag_run, execution_date, tasks) ==
    IF tasks = {} THEN <<>>
    ELSE IF dag_run # NoDagRun THEN <<"update", "commit">>
    ELSE IF execution_date = NoDate THEN <<>>
    ELSE [i \in 1..Cardinality(tasks) |-> "merge"] \o <<"commit">>

\* skip is applied once to each store drawn by SkipInit, before or instead of
\* the passes of kill_zombies
CallSkip ==
    \E dag_run \in {NoDagRun} \cup DOMAIN dag_runs, execution_date \in {NoDate, 1, 2} :
      \E tasks \in SUBSET SkipTasks :
        LET r == skip(task_instances, dag_run, execution_date, tasks)
        IN /\ store_call = NoCall
           /\ task_instances' = r.rows
           /\ store_call' = [op |-> "skip", dag_run |-> dag_run,
                             execution_date |-> execution_date, tasks |-> tasks,
                             outcome |-> r.outcome,
                             dates |-> SkipDates(task_instances, dag_run, execution_date,
                                                 tasks, utcnow),
                             statements |-> SkipStatements(dag_run, execution_date, tasks),
                             at |-> utcnow,
                             before |-> [task_instances |-> task_instances, jobs |-> jobs,
                                         dag_runs |-> dag_runs]]
           /\ UNCHANGED <<jobs, dag_runs, pools, utcnow>>
           /\ UNCHANGED <<graphVars, bagVars, xcomVars, restVars, schedVars, statVars>>

\* instances in every state, bound to the dead job 1, the live job 2 or no job
SkipInit ==
    /\ task_instances \in
         [TIKeys -> [state : {RUNNING, SUCCESS, FAILED, SKIPPED},
                     try_number : {1},
                     max_tries : {0},
                     job_id : {NoJob, 1, 2},
                     pool : {"p1"}]]
    /\ jobs = (1 :> [state |-> RUNNING, latest_heartbeat |-> 0]
               @@ 2 :> [state |-> RUNNING, latest_heartbeat |-> MaxClock])
    /\ dag_runs = [r \in RunKeys |-> [state |-> RUNNING, start_date |-> 0]]
    /\ pools = <<>>
    /\ utcnow = MaxClock
    /\ store_call = NoCall
    /\ bag_dags \in ZombieBags
    /\ file_last_changed = <<>> /\ import_errors = <<>> /\ files = <<>> /\ bag_call = NoCall
    /\ GraphIdle /\ XComIdle /\ RestIdle /\ SchedIdle /\ StatIdle

SkipNext ==
    \/ CallSkip
    \/ KillZombies

SpecSkip == SkipInit /\ [][SkipNext]_vars

TerminalStates == {SUCCESS, FAILED, SKIPPED}

\* the instances of the store that were in a terminal state before the call
TerminalBefore ==
    {k \in DOMAIN store_call.before.task_instances :
        store_call.before.task_instances[k].state \in TerminalStates}

KeepsState(k) ==
    /\ k \in DOMAIN task_instances
    /\ task_instances[k].state = store_call.before.task_instances[k].state

\* C22: neither skip nor kill_zombies changes the state of an instance that
\* is SUCCESS, FAILED or SKIPPED
C22_TerminalStateOnlyLeftByClear ==
    store_call.op \in {"skip", "kill_zombies"} =>
        \A k \in TerminalBefore : KeepsState(k)

\* what does hold: kill_zombies leaves every instance in a terminal state as
\* it is, and so does a skip that raises or is given no task
TerminalStateKeptByKillZombies ==
    \/ store_call.op = "kill_zombies"
    \/ store_call.op = "skip" /\ (store_call.outcome = "raised" \/ store_call.tasks = {})
    => \A k \in TerminalBefore : KeepsState(k)

(***************************************************************************)
(* clear_task_instances: the retry bound, the DagRuns it resets and the     *)
(* states it leaves                                                         *)
(***************************************************************************)
\* the input instances that the call has reset to NONE
ResetToNone ==
    {k \in store_call.tis :
        /\ store_call.before.task_instances[k].state # NONE
        /\ task_instances[k].state = NONE}

\* C23: for every instance that clear_task_instances resets to NONE,
\* try_number <= max_tries + 1 holds afterwards, whether or not the task
\* definition is available and whatever the previous max_tries was
C23_ClearKeepsRetryBound ==
    ClearCalled =>
        \A k \in ResetToNone :
            task_instances[k].try_number <= task_instances[k].max_tries + 1

\* one call without a DAG resets an instance whose max_tries was below
\* try_number - 1 and one whose max_tries was above it
C23_Witness ==
    /\ ClearCalled
    /\ ~store_call.dag.given
    /\ ResetToNone = TIKeys
    /\ store_call.before.task_instances[<<"d1", "t1", 1>>].try_number = 2
    /\ store_call.before.task_instances[<<"d1", "t1", 1>>].max_tries = 0
    /\ task_instances[<<"d1", "t1", 1>>].max_tries = 1
    /\ store_call.before.task_instances[<<"d2", "t2", 2>>].try_number = 1
    /\ store_call.before.task_instances[<<"d2", "t2", 2>>].max_tries = 2
    /\ task_instances[<<"d2", "t2", 2>>].max_tries = 2

\* the DagRuns that own an input instance
OwningRuns(tis) == {<<k[1], k[3]>> : k \in tis}

ResetRun(old) == [old EXCEPT !.state = RUNNING, !.start_date = utcnow]

\* C29: with activate_dag_runs and a non-empty input, exactly the DagRuns
\* whose (dag_id, execution_date) is that of some input instance are set to
\* RUNNING, and every other DagRun is left unchanged
C29_ClearResetsOwningRunsOnly ==
    (ClearCalled /\ store_call.activate_dag_runs /\ store_call.tis # {}) =>
        \A r \in DOMAIN dag_runs :
            IF r \in OwningRuns(store_call.tis)
            THEN dag_runs[r] = ResetRun(store_call.before.dag_runs[r])
            ELSE dag_runs[r] = store_call.before.dag_runs[r]

\* what does hold: the owning DagRuns are reset, and so is every DagRun whose
\* dag_id is that of one input instance and whose execution_date is that of
\* one, possibly another, input instance
ClearResetsRunsOfTheCrossProduct ==
    (ClearCalled /\ store_call.activate_dag_runs /\ store_call.tis # {}) =>
        \A r \in DOMAIN dag_runs :
            IF /\ r[1] \in {k[1] : k \in store_call.tis}
               /\ r[2] \in {k[3] : k \in store_call.tis}
            THEN dag_runs[r] = ResetRun(store_call.before.dag_runs[r])
            ELSE dag_runs[r] = store_call.before.dag_runs[r]

\* C30: after clear_task_instances every input instance is SHUTDOWN (it was
\* RUNNING with a bound job) or NONE (every other instance, one that was
\* RUNNING with no bound job included)
C30_ClearLeavesShutdownOrNone ==
    ClearCalled =>
        \A k \in store_call.tis :
            LET old == store_call.before.task_instances[k]
            IN IF old.state = RUNNING /\ old.job_id # NoJob
               THEN task_instances[k].state = SHUTDOWN
               ELSE task_instances[k].state = NONE

\* what does hold: an input instance that was RUNNING with no bound job is
\* left as it was, and every other input instance is SHUTDOWN or NONE
ClearLeavesJoblessRunningAlone ==
    ClearCalled =>
        \A k \in store_call.tis :
            LET old == store_call.before.task_instances[k]
            IN IF old.state = RUNNING
               THEN IF old.job_id # NoJob
                    THEN task_instances[k].state = SHUTDOWN
                    ELSE task_instances[k] = old
               ELSE task_instances[k].state = NONE

(***************************************************************************)
(* kill_zombies called again and again (the scheduler's loop calls it on    *)
(* every pass over the DAG files), and what one call leaves alone           *)
(***************************************************************************)
SpecZombieLive == ZombieInit /\ [][ZombieNext]_vars /\ WF_vars(KillZombies)

\* the job of instance k has stopped heartbeating, for every threshold of the
\* model, or is no longer RUNNING
JobGone(k) ==
    /\ task_instances[k].job_id \in DOMAIN jobs
    /\ LET job == jobs[task_instances[k].job_id]
       IN \/ job.state # RUNNING
          \/ \A secs \in ZombieThresholds : job.latest_heartbeat < utcnow - secs

IsZombie(k) == task_instances[k].state = RUNNING /\ JobGone(k)

\* C27: every instance that is RUNNING while its job has stopped heartbeating
\* or is no longer RUNNING is eventually moved out of RUNNING by the repeated
\* calls of kill_zombies, whatever DAGs the bag holds
C27_ZombieEventuallyReclaimed ==
    \A k \in TIKeys : IsZombie(k) ~> (task_instances[k].state # RUNNING)

\* what does hold: such an instance is eventually moved out of RUNNING when
\* the bag holds its DAG and the DAG has its task
BaggedZombieEventuallyReclaimed ==
    \A k \in TIKeys :
        (IsZombie(k) /\ ZombieInBag(k, bag_dags)) ~> (task_instances[k].state # RUNNING)

\* before the call, instance k was not RUNNING, or was RUNNING and bound to a
\* RUNNING job whose heartbeat was not older than the threshold of the call
NoZombieBefore(k) ==
    LET old == store_call.before
        ti == old.task_instances[k]
    IN \/ ti.state # RUNNING
       \/ /\ ti.job_id \in DOMAIN old.jobs
          /\ old.jobs[ti.job_id].state = RUNNING
          /\ old.jobs[ti.job_id].latest_heartbeat >= utcnow - store_call.secs

\* C28: kill_zombies never changes an instance that is not RUNNING, or that
\* is RUNNING and bound to a RUNNING job with a heartbeat not older than the
\* threshold
C28_KillZombiesFailsOnlyZombies ==
    ZombiesKilled =>
        \A k \in DOMAIN task_instances :
            NoZombieBefore(k) =>
                /\ task_instances[k] = store_call.before.task_instances[k]
                /\ FailureCalls(k) = {}

\* one call fails the zombie of d1 and leaves the instance of d2, RUNNING on
\* a RUNNING job whose heartbeat is exactly at the limit, as it is
C28_Witness ==
    /\ ZombiesKilled
    /\ store_call.zombies_killed = 1
    /\ task_instances[<<"d1", "t1", 1>>].state = FAILED
    /\ NoZombieBefore(<<"d2", "t2", 2>>)
    /\ "d2" \in DOMAIN bag_dags
    /\ task_instances[<<"d2", "t2", 2>>].state = RUNNING
    /\ task_instances[<<"d2", "t2", 2>>].job_id = 2
    /\ jobs[2].latest_heartbeat = utcnow - store_call.secs

(***************************************************************************)
(* DAG.add_task                                                             *)
(***************************************************************************)
\* the operator objects: o1 and o2 carry the same task id
Operators == {"o1", "o2", "o3"}
OperatorTaskId(o) == IF o = "o3" THEN "t2" ELSE "t1"

\* the dates a DAG or an operator is constructed with (NoDate is None)
DagStartDates == {NoDate, 2}
DagEndDates == {NoDate, 3}
TaskStartDates == {NoDate, 1, 3}
TaskEndDates == {NoDate, 2, 4}

Max(a, b) == IF a >= b THEN a ELSE b
Min(a, b) == IF a <= b THEN a ELSE b

\* not self.start_date and not task.start_date
MissingStartDateNever(dates, task) == FALSE

MissingStartDate(dates, task) ==
    dates.start_date = NoDate /\ task.start_date = NoDate

\* the start date of the task after the first if / elif / elif
ClampStartKept(dates, task) == task.start_date

ClampStart(dates, task) ==
    IF task.start_date = NoDate THEN dates.start_date
    ELSE IF dates.start_date # NoDate THEN Max(task.start_date, dates.start_date)
    ELSE task.start_date

\* the end date of the task after the second if / elif
ClampEnd(dates, task) ==
    IF task.end_date = NoDate THEN dates.end_date
    ELSE IF dates.end_date # NoDate THEN Min(task.end_date, dates.end_date)
    ELSE task.end_date

\* task.task_id in self.task_dict
AlreadyRegisteredNever(dict, task) == FALSE

AlreadyRegistered(dict, task) == task.task_id \in DOMAIN dict

\* DAG.add_task(task) for the operator object o: how the call ends, and the
\* DAG and the operator objects afterwards.  self.tasks is a property that
\* builds a list from task_dict, so that task_dict alone holds the tasks and
\* their order
add_task(dates, ids, dict, count, ops, o) ==
    LET task == ops[o]
    IN IF MissingStartDate(dates, task)
       THEN [outcome |-> "raised", exception |-> "AirflowException", warned |-> FALSE,
             task_ids |-> ids, task_dict |-> dict, task_count |-> count,
             operators |-> ops]
       ELSE LET clamped == [task EXCEPT !.start_date = ClampStart(dates, task),
                                        !.end_date = ClampEnd(dates, task)]
            IN IF AlreadyRegistered(dict, clamped)
               THEN [outcome |-> "returned", warned |-> TRUE,
                     task_ids |-> ids, task_dict |-> dict, task_count |-> Len(ids),
                     operators |-> [ops EXCEPT ![o] = clamped]]
               ELSE LET appended == Append(ids, clamped.task_id)
                    IN [outcome |-> "returned", warned |-> FALSE,
                        task_ids |-> appended,
                        task_dict |-> DictSet(dict, clamped.task_id, o),
                        task_count |-> Len(appended),
                        operators |-> [ops EXCEPT ![o] = [clamped EXCEPT !.dag = TRUE]]]

AddTask ==
    \E o \in DOMAIN operators :
        LET r == add_task(dag_dates, task_ids, task_dict, task_count, operators, o)
        IN /\ task_ids' = r.task_ids
           /\ task_dict' = r.task_dict
           /\ task_count' = r.task_count
           /\ operators' = r.operators
           /\ upstream_task_ids' = [t \in DOMAIN r.task_dict |-> {}]
           /\ downstream_task_ids' = [t \in DOMAIN r.task_dict |-> {}]
           /\ graph_call' = [op |-> "add_task", task |-> o, outcome |-> r.outcome,
                             warned |-> r.warned,
                             before |-> [task_ids |-> task_ids, task_dict |-> task_dict,
                                         task_count |-> task_count,
                                         operators |-> operators]]
           /\ UNCHANGED <<dag_id, dag_dates, callbacks>>
           /\ UNCHANGED <<storeVars, bagVars, xcomVars, restVars, schedVars, statVars>>

\* DAG(dag_id, start_date, end_date) without tasks, and operators that were
\* constructed without a DAG
AddTaskInit ==
    /\ dag_id = "d1"
    /\ dag_dates \in [start_date : DagStartDates, end_date : DagEndDates]
    /\ task_ids = <<>> /\ task_dict = <<>> /\ task_count = 0
    /\ upstream_task_ids = <<>> /\ downstream_task_ids = <<>>
    /\ \E starts \in [Operators -> TaskStartDates], ends \in [{"o1", "o2"} -> TaskEndDates] :
        operators = [o \in Operators |->
                        [task_id |-> OperatorTaskId(o), start_date |-> starts[o],
                         end_date |-> IF o = "o3" THEN NoDate ELSE ends[o],
                         dag |-> FALSE]]
    /\ callbacks = [on_success_callback |-> "None", on_failure_callback |-> "None"]
    /\ graph_call = NoCall
    /\ StoreIdle /\ BagIdle /\ XComIdle /\ RestIdle /\ SchedIdle /\ StatIdle

AddTaskNext ==
    \/ AddTask

SpecAddTask == AddTaskInit /\ [][AddTaskNext]_vars

AddTaskCalled == graph_call.op = "add_task"

\* the operator of the call as it was before the call
TaskBefore == graph_call.before.operators[graph_call.task]

DagUnchanged ==
    /\ task_ids = graph_call.before.task_ids
    /\ task_dict = graph_call.before.task_dict

\* C24: add_task raises when neither the DAG nor the task has a start date,
\* and then the DAG's tasks are unchanged and the task is not attached
C24_AddTaskWithoutStartDateRaises ==
    (AddTaskCalled /\ dag_dates.start_date = NoDate /\ TaskBefore.start_date = NoDate) =>
        /\ graph_call.outcome = "raised"
        /\ DagUnchanged
        /\ task_count = graph_call.before.task_count
        /\ operators = graph_call.before.operators
        /\ ~operators[graph_call.task].dag

\* a DAG without a start date holds t2, which has one, and refuses o1, which
\* has none
C24_Witness ==
    /\ AddTaskCalled /\ graph_call.task = "o1"
    /\ graph_call.outcome = "raised"
    /\ dag_dates.start_date = NoDate
    /\ task_ids = <<"t2">>
    /\ "t1" \notin DOMAIN task_dict
    /\ operators["o3"].dag /\ ~operators["o1"].dag

\* the call has registered its operator
Registered ==
    /\ AddTaskCalled
    /\ graph_call.outcome = "returned"
    /\ TaskBefore.task_id \notin DOMAIN graph_call.before.task_dict

\* C25: the window of a task that add_task registers is clamped to the DAG's
\* window, and every registered task starts no earlier and ends no later than
\* the DAG whenever those dates are defined
C25_RegisteredTaskWindowClamped ==
    /\ Registered =>
        LET old == TaskBefore
            new == operators[graph_call.task]
        IN /\ old.start_date = NoDate => new.start_date = dag_dates.start_date
           /\ (old.start_date # NoDate /\ dag_dates.start_date # NoDate) =>
                new.start_date = Max(old.start_date, dag_dates.start_date)
           /\ (old.start_date # NoDate /\ dag_dates.start_date = NoDate) =>
                new.start_date = old.start_date
           /\ old.end_date = NoDate => new.end_date = dag_dates.end_date
           /\ (old.end_date # NoDate /\ dag_dates.end_date # NoDate) =>
                new.end_date = Min(old.end_date, dag_dates.end_date)
           /\ (old.end_date # NoDate /\ dag_dates.end_date = NoDate) =>
                new.end_date = old.end_date
    /\ \A t \in DOMAIN task_dict :
        LET task == operators[task_dict[t]]
        IN /\ task.start_date # NoDate
           /\ dag_dates.start_date # NoDate => dag_dates.start_date <= task.start_date
           /\ (task.end_date # NoDate /\ dag_dates.end_date # NoDate) =>
                task.end_date <= dag_dates.end_date

\* a task of the window 1..4 is registered in a DAG of the window 2..3
C25_Witness ==
    /\ Registered
    /\ dag_dates = [start_date |-> 2, end_date |-> 3]
    /\ TaskBefore.start_date = 1 /\ TaskBefore.end_date = 4
    /\ operators[graph_call.task].start_date = 2
    /\ operators[graph_call.task].end_date = 3
    /\ operators[graph_call.task].dag

\* the call was given an operator whose task id was registered already
Duplicate ==
    /\ AddTaskCalled
    /\ TaskBefore.task_id \in DOMAIN graph_call.before.task_dict

NoRepeatedId == \A i, j \in 1..Len(task_ids) : i # j => task_ids[i] # task_ids[j]

RejectedWithoutEffect ==
    /\ DagUnchanged
    /\ task_count = Len(task_ids)
    /\ operators[graph_call.task].dag = TaskBefore.dag

RegisteredLast ==
    /\ task_ids = Append(graph_call.before.task_ids, TaskBefore.task_id)
    /\ task_dict = DictSet(graph_call.before.task_dict, TaskBefore.task_id, graph_call.task)
    /\ task_count = Len(task_ids)
    /\ operators[graph_call.task].dag

\* C26 as stated: task ids stay unique; adding a task whose id is registered
\* does not raise, does not replace the registered task, does not change the
\* task count or the insertion order and does not attach the rejected task; a
\* task with a new id is registered after all earlier ones
C26_DuplicateTaskIdIsRejectedSilently ==
    /\ NoRepeatedId
    /\ Range(task_ids) = DOMAIN task_dict
    /\ Duplicate => graph_call.outcome = "returned" /\ RejectedWithoutEffect
    /\ Registered => RegisteredLast

\* C26 as the code does it: the duplicate raises, without any effect, when
\* neither the DAG nor the rejected task has a start date
C26_DuplicateTaskIdIsRejectedWithoutEffect ==
    /\ NoRepeatedId
    /\ Range(task_ids) = DOMAIN task_dict
    /\ Duplicate =>
        /\ RejectedWithoutEffect
        /\ graph_call.outcome = "raised" <=>
            (dag_dates.start_date = NoDate /\ TaskBefore.start_date = NoDate)
    /\ Registered => RegisteredLast

\* o1 holds t1, t2 was registered after it, and o2, another operator named
\* t1, is rejected with a warning
C26_Witness ==
    /\ Duplicate /\ graph_call.task = "o2"
    /\ graph_call.outcome = "returned" /\ graph_call.warned
    /\ task_ids = <<"t1", "t2">>
    /\ task_dict["t1"] = "o1"
    /\ task_count = 2
    /\ ~operators["o2"].dag

(***************************************************************************)
(* clear_task_instances: the retry ceiling of a cleared instance            *)
(***************************************************************************)
\* C38 as stated: for every instance that clear_task_instances resets to
\* NONE, max_tries after the call is at least max_tries before the call, also
\* when the task's retries setting was reduced since
C38_ClearNeverLowersMaxTries ==
    ClearCalled =>
        \A k \in ResetToNone :
            task_instances[k].max_tries >= store_call.before.task_instances[k].max_tries

\* C38 as the code does it: max_tries is not lowered when the DAG is not
\* given or has not the task; with the task it becomes
\* try_number + retries - 1, whatever it was before
C38_ClearKeepsMaxTriesWithoutTask ==
    ClearCalled =>
        \A k \in ResetToNone :
            LET old == store_call.before.task_instances[k]
                dag == store_call.dag
            IN IF dag.given /\ has_task(dag, k[2])
               THEN task_instances[k].max_tries = old.try_number + dag.retries[k[2]] - 1
               ELSE task_instances[k].max_tries >= old.max_tries

\* one call with a DAG that has t1 with no retries and has not t2: the
\* ceiling of (d1, t1, 1) drops from 2 to 0 and that of (d2, t2, 2) stays 2
C38_Witness ==
    /\ ClearCalled
    /\ ResetToNone = TIKeys
    /\ store_call.dag.given
    /\ has_task(store_call.dag, "t1") /\ ~has_task(store_call.dag, "t2")
    /\ store_call.dag.retries["t1"] = 0
    /\ store_call.before.task_instances[<<"d1", "t1", 1>>].try_number = 1
    /\ store_call.before.task_instances[<<"d1", "t1", 1>>].max_tries = 2
    /\ task_instances[<<"d1", "t1", 1>>].max_tries = 0
    /\ store_call.before.task_instances[<<"d2", "t2", 2>>].try_number = 1
    /\ store_call.before.task_instances[<<"d2", "t2", 2>>].max_tries = 2
    /\ task_instances[<<"d2", "t2", 2>>].max_tries = 2

(***************************************************************************)
(* DAG.topological_sort: the order among tasks that no edge orders          *)
(***************************************************************************)
\* the position of task t in the insertion order
AddedAt(t) == CHOOSE i \in 1..Len(task_ids) : task_ids[i] = t

\* every upstream task of t is among the first n tasks of the result
Eligible(sorted, t, n) ==
    \A u \in upstream_task_ids[t] : \E i \in 1..n : sorted[i] = u

\* C35 as stated: whenever two tasks are both eligible (all their upstream
\* tasks are placed), the one added to the DAG earlier is placed first
C35_TiesBrokenByInsertionOrder ==
    (SortCalled /\ ~HasCycle) =>
        LET sorted == graph_call.result.value
        IN \A i, j \in 1..Len(sorted) :
            (i < j /\ Eligible(sorted, sorted[j], i - 1)) =>
                AddedAt(sorted[i]) < AddedAt(sorted[j])

\* the pass of the while loop in which task t is placed: the first pass that
\* every upstream task added before t is placed in or before, and that comes
\* after the pass of every upstream task added after t
RECURSIVE PassOf(_)
PassOf(t) ==
    LET after == {IF AddedAt(u) < AddedAt(t) THEN PassOf(u) ELSE PassOf(u) + 1 :
                    u \in upstream_task_ids[t]}
    IN IF after = {} THEN 1 ELSE CHOOSE n \in after : \A m \in after : m <= n

\* C35 as the code does it: the result lists the tasks pass by pass and, within
\* a pass, in insertion order; a task that becomes eligible after its pass
\* has gone past it waits for the next pass, behind later-added tasks
C35_TiesBrokenByPassThenInsertionOrder ==
    (SortCalled /\ ~HasCycle) =>
        /\ graph_call.result.status = "returned"
        /\ graph_call.result = topological_sort(dag_id, task_ids, upstream_task_ids)
        /\ LET sorted == graph_call.result.value
           IN /\ Range(sorted) = Tasks
              /\ \A i, j \in 1..Len(sorted) :
                    i < j =>
                        \/ PassOf(sorted[i]) < PassOf(sorted[j])
                        \/ /\ PassOf(sorted[i]) = PassOf(sorted[j])
                           /\ AddedAt(sorted[i]) < AddedAt(sorted[j])

\* a, added first, waits for b; c, added last and free, is placed before a
\* although a is eligible as soon as b is placed
C35_Witness ==
    /\ SortCalled /\ ~HasCycle
    /\ task_ids = <<<<"a">>, <<"b">>, <<"c">>>>
    /\ upstream_task_ids[<<"a">>] = {<<"b">>}
    /\ upstream_task_ids[<<"b">>] = {} /\ upstream_task_ids[<<"c">>] = {}
    /\ graph_call.result.status = "returned"
    /\ graph_call.result.value = <<<<"b">>, <<"c">>, <<"a">>>>

(***************************************************************************)
(* Variable (variable.py): the key/value table behind Variable.get,         *)
(* Variable.set and Variable.setdefault.  Python values are tagged with     *)
(* their type, the stored column is text.                                   *)
(***************************************************************************)
MaxVarCalls == 2

VarKeys == {"k1", "k2"}

\* Python values: the type and, for an int, its decimal numeral
PyNone == [type |-> "NoneType", v |-> ""]
PyStr(text) == [type |-> "str", v |-> text]
PyInt(numeral) == [type |-> "int", v |-> numeral]
VarValues == {PyNone, PyStr(""), PyStr("a"), PyInt("5")}

\* str(value)
py_str(value) ==
    CASE value.type = "str" -> PyStr(value.v)
      [] value.type = "int" -> PyStr(value.v)
      [] OTHER -> PyStr("None")

\* json.dumps(value)
var_json_dumps(value) ==
    CASE value.type = "str" -> PyStr("\"" \o value.v \o "\"")
      [] value.type = "int" -> PyStr(value.v)
      [] OTHER -> PyStr("null")

\* json.loads(text): the value whose JSON text it is, or an error
var_json_loads(text) ==
    IF text.type # "str" THEN [raised |-> "TypeError"]
    ELSE IF \E value \in VarValues : var_json_dumps(value) = text
    THEN [returned |-> CHOOSE value \in VarValues : var_json_dumps(value) = text]
    ELSE [raised |-> "ValueError"]

\* Variable(key=key, val=stored_value): set_val keeps _val unset for a falsy value
NewVariable(key, stored_value, fernet) ==
    IF stored_value.v = ""
    THEN [key |-> key, val |-> PyNone, is_encrypted |-> FALSE]
    ELSE IF fernet = "ok"
    THEN [key |-> key, val |-> [type |-> "token", v |-> stored_value.v],
          is_encrypted |-> TRUE]
    ELSE [key |-> key, val |-> stored_value, is_encrypted |-> FALSE]

\* Variable.get_val
get_val(obj, fernet) ==
    IF obj.val # PyNone /\ obj.is_encrypted
    THEN IF fernet = "ok" THEN [returned |-> PyStr(obj.val.v)]
         ELSE [raised |-> "AirflowException"]
    ELSE [returned |-> obj.val]

\* Variable.set: the table after the call
VariableSet(rows, key, value, serialize_json, fernet) ==
    LET stored_value == IF serialize_json THEN var_json_dumps(value) ELSE py_str(value)
    IN {r \in rows : r.key # key} \cup {NewVariable(key, stored_value, fernet)}

\* Variable.get: what it returns or raises
VariableGet(rows, key, default_var, deserialize_json, fernet) ==
    IF ~\E r \in rows : r.key = key
    THEN IF default_var # PyNone THEN [returned |-> default_var]
         ELSE [raised |-> "KeyError"]
    ELSE LET obj == CHOOSE r \in rows : r.key = key
             val == get_val(obj, fernet)
         IN IF "raised" \in DOMAIN val THEN val
            ELSE IF deserialize_json THEN var_json_loads(val.returned)
            ELSE val

default_sentinel == [type |-> "object", v |-> ""]

\* Variable.setdefault: the table after the call and what it returns or raises
VariableSetdefault(rows, key, default, deserialize_json, fernet) ==
    LET obj == VariableGet(rows, key, default_sentinel, deserialize_json, fernet)
    IN IF "raised" \in DOMAIN obj THEN [rows |-> rows, result |-> obj]
       ELSE IF obj.returned = default_sentinel
       THEN IF default # PyNone
            THEN [rows |-> VariableSet(rows, key, default, deserialize_json, fernet),
                  result |-> [returned |-> default]]
            ELSE [rows |-> rows, result |-> [raised |-> "ValueError"]]
       ELSE [rows |-> rows, result |-> obj]

CallVariableSet ==
    \E key \in VarKeys, value \in VarValues, serialize_json \in BOOLEAN,
       fernet \in {"ok", "missing"} :
        /\ Len(var_call) < MaxVarCalls
        /\ variables' = VariableSet(variables, key, value, serialize_json, fernet)
        /\ var_call' = Append(var_call,
               [op |-> "set", key |-> key, value |-> value, json |-> serialize_json,
                fernet |-> fernet, before |-> variables, after |-> variables',
                result |-> [returned |-> PyNone]])
        /\ UNCHANGED <<graphVars, storeVars, bagVars, xcomVars, schedVars, statVars, xcom_call, xcom_writers,
                       contextVars>>

CallVariableSetdefault ==
    \E key \in VarKeys, default \in VarValues, deserialize_json \in BOOLEAN,
       fernet \in {"ok", "missing"} :
        LET out == VariableSetdefault(variables, key, default, deserialize_json, fernet)
        IN /\ Len(var_call) < MaxVarCalls
           /\ variables' = out.rows
           /\ var_call' = Append(var_call,
                  [op |-> "setdefault", key |-> key, value |-> default,
                   json |-> deserialize_json, fernet |-> fernet,
                   before |-> variables, after |-> out.rows, result |-> out.result])
           /\ UNCHANGED <<graphVars, storeVars, bagVars, xcomVars, schedVars, statVars, xcom_call, xcom_writers,
                       contextVars>>

VariableInit ==
    /\ variables = {}
    /\ var_call = <<>>
    /\ GraphIdle /\ StoreIdle /\ BagIdle /\ XComIdle /\ SchedIdle /\ StatIdle
    /\ xcom_call = NoCall /\ xcom_writers = <<>> /\ ContextIdle

VariableNext ==
    \/ CallVariableSet
    \/ CallVariableSetdefault

SpecVariable == VariableInit /\ [][VariableNext]_vars

\* two consecutive setdefault calls with the same arguments, the first on an
\* absent key with a default that is not None
RepeatedSetdefault ==
    /\ Len(var_call) >= 2
    /\ var_call[1].op = "setdefault" /\ var_call[2].op = "setdefault"
    /\ var_call[1].key = var_call[2].key /\ var_call[1].value = var_call[2].value
    /\ var_call[1].json = var_call[2].json
    /\ var_call[1].fernet = var_call[2].fernet
    /\ var_call[1].value # PyNone
    /\ ~\E r \in var_call[1].before : r.key = var_call[1].key

\* C36: Variable.setdefault behaves like dict.setdefault: on an absent key a
\* default that is not None is stored and returned, and a second setdefault
\* with the same key returns the same value as the first and leaves the table
\* as it is; on an absent key a None default raises ValueError and stores
\* nothing
C36_SetdefaultLikeDict ==
    /\ RepeatedSetdefault =>
           /\ var_call[2].result = var_call[1].result
           /\ var_call[2].after = var_call[2].before
    /\ \A i \in DOMAIN var_call :
           (/\ var_call[i].op = "setdefault"
            /\ var_call[i].value = PyNone
            /\ ~\E r \in var_call[i].before : r.key = var_call[i].key)
           => /\ var_call[i].result = [raised |-> "ValueError"]
              /\ var_call[i].after = var_call[i].before

\* what does hold: the second call never touches the table, and it returns the
\* first call's value when the default is a non-empty string (or, with JSON
\* serialisation, any value) and the fernet key is the same for both calls
SetdefaultRoundTripsText ==
    RepeatedSetdefault =>
        /\ var_call[2].after = var_call[2].before
        /\ (var_call[1].json \/ (var_call[1].value.type = "str" /\ var_call[1].value.v # ""))
               => var_call[2].result = var_call[1].result

(***************************************************************************)
(* SkipMixin.skip: the rows it writes                                       *)
(***************************************************************************)
SkipCalled == store_call.op = "skip"

\* the rows of the run handed to skip whose task id is among the given tasks
SkippedOfRun ==
    {k \in DOMAIN store_call.before.task_instances :
        /\ k[1] = store_call.dag_run[1]
        /\ k[3] = store_call.dag_run[2]
        /\ k[2] \in {d.task_id : d \in store_call.tasks}}

\* the keys of the instances skip creates or overwrites without a DagRun
SkippedOfDate ==
    {<<d.dag_id, d.task_id, store_call.execution_date>> : d \in store_call.tasks}

SkippedAtOneInstant(k) ==
    /\ k \in DOMAIN task_instances /\ task_instances[k].state = SKIPPED
    /\ k \in DOMAIN store_call.dates
    /\ store_call.dates[k].start_date = store_call.at
    /\ store_call.dates[k].end_date = store_call.at

SkipLeftAlone(keys) ==
    \A k \in keys :
        /\ k \in DOMAIN task_instances
        /\ task_instances[k] = store_call.before.task_instances[k]
        /\ k \notin DOMAIN store_call.dates

\* C31: skip with a DagRun sets, in one bulk update followed by a commit,
\* exactly the instances of the run's dag_id and execution_date whose task id
\* is given to SKIPPED with start_date = end_date = one instant and changes no
\* other instance; with no task it changes nothing; with no DagRun it upserts
\* one SKIPPED instance per given task at the given execution date
C31_SkipWritesExactlyTheGivenTasks ==
    SkipCalled =>
        LET before == store_call.before.task_instances
        IN /\ store_call.tasks = {} =>
                 /\ task_instances = before
                 /\ store_call.statements = <<>>
           /\ (store_call.tasks # {} /\ store_call.dag_run # NoDagRun) =>
                 /\ DOMAIN task_instances = DOMAIN before
                 /\ \A k \in SkippedOfRun : SkippedAtOneInstant(k)
                 /\ SkipLeftAlone(DOMAIN before \ SkippedOfRun)
                 /\ store_call.statements = <<"update", "commit">>
           /\ (/\ store_call.tasks # {} /\ store_call.dag_run = NoDagRun
               /\ store_call.execution_date # NoDate) =>
                 /\ DOMAIN task_instances = DOMAIN before \cup SkippedOfDate
                 /\ \A k \in SkippedOfDate : SkippedAtOneInstant(k)
                 /\ SkipLeftAlone(DOMAIN before \ SkippedOfDate)
                 /\ store_call.statements[Len(store_call.statements)] = "commit"

\* a skip with a DagRun that wrote one instance and left the other alone
C31_Witness ==
    /\ SkipCalled
    /\ store_call.tasks # {} /\ store_call.dag_run # NoDagRun
    /\ SkippedOfRun # {}
    /\ DOMAIN store_call.before.task_instances \ SkippedOfRun # {}
    /\ \E k \in SkippedOfRun : store_call.before.task_instances[k].state # SKIPPED

\* a skip without a DagRun that inserted an instance
C31_WitnessUpsert ==
    /\ SkipCalled
    /\ store_call.tasks # {} /\ store_call.dag_run = NoDagRun
    /\ store_call.execution_date # NoDate
    /\ SkippedOfDate \ DOMAIN store_call.before.task_instances # {}

(***************************************************************************)
(* XCom.get_one and XCom.get_many (x_com.py)                                *)
(***************************************************************************)
XComStamps == {0, 1}
XComLimits == {0, 1, 100}

\* the XCom row of <<key, execution_date>> written at ts: "v1" as JSON or
\* "v2" pickled
XComRowOf(scope, ts, pickled) ==
    [key |-> scope[1], execution_date |-> scope[2], task_id |-> "t1", dag_id |-> "d1",
     timestamp |-> ts,
     value |-> IF pickled THEN pickle_dumps("v2") ELSE json_dumps("v1")]

\* the tables that XCom.set calls leave: at most one row for every scope,
\* the ids in the order of the timestamps
XComTables ==
    LET scopes == XComKeys \X XComDates
        Earlier(q, r) ==
            \/ q.timestamp < r.timestamp
            \/ /\ q.timestamp = r.timestamp
               /\ \/ q.execution_date < r.execution_date
                  \/ q.execution_date = r.execution_date /\ q.key = "k1" /\ r.key = "k2"
        WithIds(rows) ==
            {[id |-> 1 + Cardinality({q \in rows : Earlier(q, r)}),
              key |-> r.key, value |-> r.value, timestamp |-> r.timestamp,
              execution_date |-> r.execution_date, task_id |-> r.task_id,
              dag_id |-> r.dag_id] : r \in rows}
    IN {WithIds({XComRowOf(sc, pick[sc].ts, pick[sc].pickled) :
                    sc \in {x \in scopes : pick[x].present}}) :
           pick \in [scopes -> [present : BOOLEAN, ts : XComStamps, pickled : BOOLEAN]]}

\* pickle.loads(value) / json.loads(value.decode('UTF-8'))
xcom_loads(stored, enable_pickling) ==
    IF enable_pickling
    THEN IF stored.format = "pickle" THEN [returned |-> stored.of]
         ELSE [raised |-> "UnpicklingError"]
    ELSE IF stored.format = "json" THEN [returned |-> stored.of]
         ELSE [raised |-> "ValueError"]

\* filters.append(cls.execution_date <= execution_date) or (== execution_date)
XComDateFilter(r, execution_date, include_prior_dates) ==
    IF include_prior_dates THEN r.execution_date <= execution_date
    ELSE r.execution_date = execution_date

\* the rows passing and_(*filters); a filter is added for every argument that is truthy
XComFiltered(rows, execution_date, key, task_id, dagid, include_prior_dates) ==
    {r \in rows :
        /\ key # "None" => r.key = key
        /\ task_id # "None" => r.task_id = task_id
        /\ dagid # "None" => r.dag_id = dagid
        /\ XComDateFilter(r, execution_date, include_prior_dates)}

XComOrderedByDateOnly(seq) ==
    \A i, j \in DOMAIN seq : i < j => seq[i].execution_date >= seq[j].execution_date

\* order_by(cls.execution_date.desc(), cls.timestamp.desc())
XComOrdered(seq) ==
    \A i, j \in DOMAIN seq :
        i < j => \/ seq[i].execution_date > seq[j].execution_date
                 \/ /\ seq[i].execution_date = seq[j].execution_date
                    /\ seq[i].timestamp >= seq[j].timestamp

\* the orders in which the store may return the rows: rows that tie on both
\* columns come in any order
XComOrders(rows) ==
    {seq \in [1..Cardinality(rows) -> rows] :
        /\ \A i, j \in DOMAIN seq : i # j => seq[i] # seq[j]
        /\ XComOrdered(seq)}

\* XCom.get_one, given the order the store answers in
get_one(order, enable_pickling) ==
    IF order = <<>> THEN [returned |-> "None"]
    ELSE xcom_loads(order[1].value, enable_pickling)

\* XCom.get_many, given the order the store answers in
get_many(order, limit, enable_pickling) ==
    LET results == SubSeq(order, 1, IF limit < Len(order) THEN limit ELSE Len(order))
        loaded == [i \in DOMAIN results |-> xcom_loads(results[i].value, enable_pickling)]
    IN IF \E i \in DOMAIN loaded : "raised" \in DOMAIN loaded[i]
       THEN [raised |-> loaded[CHOOSE i \in DOMAIN loaded :
                                  /\ "raised" \in DOMAIN loaded[i]
                                  /\ \A j \in DOMAIN loaded :
                                        "raised" \in DOMAIN loaded[j] => i <= j].raised]
       ELSE [returned |-> [i \in DOMAIN results |->
                              [results[i] EXCEPT !.value = loaded[i].returned]]]

CallGetOne ==
    /\ xcom_call = NoCall
    /\ \E execution_date \in XComDates, key \in XComKeys \cup {"None"},
          include_prior_dates \in BOOLEAN, enable_pickling \in BOOLEAN :
         \E order \in XComOrders(XComFiltered(xcoms, execution_date, key, "t1", "d1",
                                              include_prior_dates)) :
           /\ xcom_call' = [op |-> "get_one", execution_date |-> execution_date, key |-> key,
                            task_id |-> "t1", dag_id |-> "d1",
                            include_prior_dates |-> include_prior_dates,
                            enable_pickling |-> enable_pickling, limit |-> 1,
                            result |-> get_one(order, enable_pickling)]
           /\ UNCHANGED <<graphVars, storeVars, bagVars, xcomVars, schedVars, statVars,
                          variableVars, xcom_writers, contextVars>>

CallGetMany ==
    /\ xcom_call = NoCall
    /\ \E execution_date \in XComDates, key \in XComKeys \cup {"None"},
          include_prior_dates \in BOOLEAN, enable_pickling \in BOOLEAN, limit \in XComLimits :
         \E order \in XComOrders(XComFiltered(xcoms, execution_date, key, "None", "d1",
                                              include_prior_dates)) :
           /\ xcom_call' = [op |-> "get_many", execution_date |-> execution_date, key |-> key,
                            task_id |-> "None", dag_id |-> "d1",
                            include_prior_dates |-> include_prior_dates,
                            enable_pickling |-> enable_pickling, limit |-> limit,
                            result |-> get_many(order, limit, enable_pickling)]
           /\ UNCHANGED <<graphVars, storeVars, bagVars, xcomVars, schedVars, statVars,
                          variableVars, xcom_writers, contextVars>>

XComGetInit ==
    /\ xcoms \in XComTables
    /\ xcom_next_id = Cardinality(xcoms) + 1
    /\ xcom_log = <<>>
    /\ xcom_call = NoCall /\ xcom_writers = <<>> /\ ContextIdle
    /\ GraphIdle /\ StoreIdle /\ BagIdle /\ SchedIdle /\ StatIdle /\ VariableIdle

XComGetNext ==
    \/ CallGetOne
    \/ CallGetMany

SpecXComGet == XComGetInit /\ [][XComGetNext]_vars

\* the rows of the table with the date the call asks for
XComInDate ==
    {r \in xcoms :
        /\ xcom_call.key # "None" => r.key = xcom_call.key
        /\ xcom_call.task_id # "None" => r.task_id = xcom_call.task_id
        /\ IF xcom_call.include_prior_dates
           THEN r.execution_date <= xcom_call.execution_date
           ELSE r.execution_date = xcom_call.execution_date}

\* r comes no later than q: a more recent execution date, or the same date
\* and no older timestamp
XComNoLater(r, q) ==
    \/ r.execution_date > q.execution_date
    \/ r.execution_date = q.execution_date /\ r.timestamp >= q.timestamp

\* C32: get_one and get_many return only entries of the given execution date,
\* or of dates up to it when prior dates are included, most recent execution
\* date first and then most recent timestamp; get_one returns the value of
\* the first entry in that order and get_many returns at most limit entries
C32_ReadsFilterByDateMostRecentFirst ==
    /\ xcom_call.op = "get_one" =>
          IF XComInDate = {} THEN xcom_call.result = [returned |-> "None"]
          ELSE \E r \in XComInDate :
                  /\ \A q \in XComInDate : XComNoLater(r, q)
                  /\ xcom_call.result = xcom_loads(r.value, xcom_call.enable_pickling)
    /\ (xcom_call.op = "get_many" /\ "returned" \in DOMAIN xcom_call.result) =>
          LET results == xcom_call.result.returned
          IN /\ Len(results) <= xcom_call.limit
             /\ \A i \in DOMAIN results :
                   /\ \E r \in XComInDate :
                         /\ r.id = results[i].id
                         /\ [returned |-> results[i].value]
                               = xcom_loads(r.value, xcom_call.enable_pickling)
                   /\ \A j \in DOMAIN results : i < j => XComNoLater(results[i], results[j])
                   /\ \A q \in XComInDate :
                         (\A j \in DOMAIN results : results[j].id # q.id)
                         => XComNoLater(results[i], q)
             /\ Len(results) < xcom_call.limit => Len(results) = Cardinality(XComInDate)

\* a get_one that had to choose between entries of two dates and of two
\* timestamps, and a get_many cut by its limit
C32_Witness ==
    /\ xcom_call.op = "get_one" /\ xcom_call.include_prior_dates
    /\ "returned" \in DOMAIN xcom_call.result
    /\ \E r, q \in XComInDate : r.execution_date < q.execution_date
    /\ \E r, q \in XComInDate :
          /\ r.execution_date = xcom_call.execution_date
          /\ q.execution_date = xcom_call.execution_date
          /\ r.timestamp < q.timestamp

C32_WitnessLimit ==
    /\ xcom_call.op = "get_many" /\ "returned" \in DOMAIN xcom_call.result
    /\ Len(xcom_call.result.returned) = xcom_call.limit
    /\ xcom_call.limit = 1
    /\ Cardinality(XComInDate) > 1

(***************************************************************************)
(* DagStat.set_dirty and DagStat.update when the store fails                *)
(***************************************************************************)
\* where the store fails during the call: at the SELECT ... FOR UPDATE, at
\* the count query of update, at the commit, or nowhere
StoreFailures == {"none", "lock", "count", "commit"}

SessionRollbackKeepsPending(committed, pending) == pending

\* except Exception: session.rollback(): the table is what was last committed
SessionRollback(committed, pending) == committed

\* DagStat.set_dirty(dag_id): DagStat.create commits the missing rows, then
\* the try block marks and commits or rolls back
SetDirtyTry(dagid, stats, fails) ==
    LET created == DagStatCreate(dagid, stats, {}, {}).stats
    IN CASE fails = "lock" ->
              [stats |-> SessionRollback(created, created), outcome |-> "returned",
               rolled_back |-> TRUE]
         [] fails = "commit" ->
              [stats |-> SessionRollback(created, MarkDirty(dagid, created)),
               outcome |-> "returned", rolled_back |-> TRUE]
         [] OTHER ->
              [stats |-> MarkDirty(dagid, created), outcome |-> "returned",
               rolled_back |-> FALSE]

\* DagStat.update(dag_ids, dirty_only): the whole body is inside the try
DagStatUpdateTry(stats, runs, dag_ids, dirty_only, fails) ==
    LET ids == {k[1] : k \in StatsToUpdate(stats, dag_ids, dirty_only)}
        merged == DagStatUpdate(stats, runs, dag_ids, dirty_only)
    IN CASE fails = "lock" ->
              [stats |-> SessionRollback(stats, stats), outcome |-> "returned",
               rolled_back |-> TRUE]
         [] fails = "count" /\ ids # {} ->
              [stats |-> SessionRollback(stats, stats), outcome |-> "returned",
               rolled_back |-> TRUE]
         [] fails = "commit" ->
              [stats |-> SessionRollback(stats, merged), outcome |-> "returned",
               rolled_back |-> TRUE]
         [] OTHER ->
              [stats |-> merged, outcome |-> "returned", rolled_back |-> FALSE]

CallSetDirtyTry ==
    \E dagid \in StatDagIds, fails \in StoreFailures \ {"count"} :
        LET r == SetDirtyTry(dagid, dag_stats, fails)
        IN /\ store_call.op \in {"none", "set_dirty", "update"}
           /\ store_call.op # "none" => store_call.rolled_back
           /\ dag_stats' = r.stats
           /\ store_call' = [op |-> "set_dirty", dag_id |-> dagid, fails |-> fails,
                             outcome |-> r.outcome, rolled_back |-> r.rolled_back,
                             retry |-> store_call.op # "none",
                             before |-> [dag_stats |-> dag_stats]]
           /\ UNCHANGED <<task_instances, jobs, dag_runs, pools, utcnow>>
           /\ UNCHANGED <<dag_models, dag_run_rows, sessions>>
           /\ UNCHANGED <<graphVars, bagVars, xcomVars, restVars, schedVars>>

CallDagStatUpdateTry ==
    \E dag_ids \in SUBSET StatDagIds, dirty_only \in BOOLEAN, fails \in StoreFailures :
        LET r == DagStatUpdateTry(dag_stats, dag_runs, dag_ids, dirty_only, fails)
        IN /\ store_call.op \in {"none", "set_dirty", "update"}
           /\ store_call.op # "none" => store_call.rolled_back
           /\ dag_stats' = r.stats
           /\ store_call' = [op |-> "update", dag_ids |-> dag_ids,
                             dirty_only |-> dirty_only, fails |-> fails,
                             outcome |-> r.outcome, rolled_back |-> r.rolled_back,
                             retry |-> store_call.op # "none",
                             before |-> [dag_stats |-> dag_stats]]
           /\ UNCHANGED <<task_instances, jobs, dag_runs, pools, utcnow>>
           /\ UNCHANGED <<dag_models, dag_run_rows, sessions>>
           /\ UNCHANGED <<graphVars, bagVars, xcomVars, restVars, schedVars>>

StatFailNext ==
    \/ CallSetDirtyTry
    \/ CallDagStatUpdateTry

SpecStatFail == DagStatInit /\ [][StatFailNext]_vars

\* C33: when DagStat.update or the marking step of DagStat.set_dirty hits a
\* store failure, the call rolls back, raises nothing, and leaves the count and
\* the dirty flag of every DagStat row as they were before the call
C33_StoreFailureRollsBackSilently ==
    (store_call.op \in {"set_dirty", "update"} /\ store_call.rolled_back) =>
        /\ store_call.outcome = "returned"
        /\ \A k \in DOMAIN store_call.before.dag_stats :
              /\ k \in DOMAIN dag_stats
              /\ dag_stats[k].count = store_call.before.dag_stats[k].count
              /\ dag_stats[k].dirty = store_call.before.dag_stats[k].dirty
        /\ store_call.op = "update" => dag_stats = store_call.before.dag_stats

\* an update that fails at its commit after recounting a dirty DAG
C33_Witness ==
    /\ store_call.op = "update" /\ store_call.fails = "commit" /\ store_call.rolled_back
    /\ \E k \in DOMAIN dag_stats :
          /\ dag_stats[k].dirty /\ dag_stats[k].count = StaleCount
          /\ store_call.dag_ids = {} \/ k[1] \in store_call.dag_ids

\* a set_dirty that fails at its commit on a DAG with clean rows
C33_WitnessSetDirty ==
    /\ store_call.op = "set_dirty" /\ store_call.fails = "commit" /\ store_call.rolled_back
    /\ \E k \in DOMAIN store_call.before.dag_stats :
          k[1] = store_call.dag_id /\ ~dag_stats[k].dirty

(***************************************************************************)
(* DagStat.update running next to the create_dagrun calls of the schedulers *)
(***************************************************************************)
MaxUpdates == 2

Updater == "u1"

IdleUpdater(done) ==
    [pc |-> "idle", dirty_only |-> TRUE, locked |-> {}, counts |-> <<>>, done |-> done,
     quiet |-> FALSE]

\* no create_dagrun call is under way or still to come
WritesStopped ==
    \A s \in Schedulers : sessions[s].pc \in {"returned", "raised"}

\* the count query of DagStat.update over the committed dag_run rows
CountRunRows(rows, dagid, state) ==
    Cardinality({r \in rows : r.dag_id = dagid /\ r.state = state})

\* DagStat.update(): the rows are selected with_for_update; with no row it
\* commits and returns
UpdateSelect ==
    \E dirty_only \in BOOLEAN :
        LET up == sessions[Updater]
            sel == StatsToUpdate(dag_stats, {}, dirty_only)
        IN /\ up.pc = "idle" /\ up.done < MaxUpdates
           /\ sessions' = [sessions EXCEPT ![Updater] =
                  IF sel = {}
                  THEN [IdleUpdater(up.done + 1) EXCEPT !.quiet = WritesStopped]
                  ELSE [up EXCEPT !.pc = "locked", !.dirty_only = dirty_only,
                                  !.locked = sel, !.quiet = WritesStopped]]
           /\ UNCHANGED <<dag_stats, dag_models, dag_run_rows>>
           /\ UNCHANGED <<graphVars, storeVars, bagVars, xcomVars, restVars, schedVars>>

\* counts = {(dag_id, state): count for dag_id, state, count in qry}
UpdateCount ==
    LET up == sessions[Updater]
        dagstat_states == {k[1] : k \in up.locked} \X Range(dag_states)
    IN /\ up.pc = "locked"
       /\ sessions' = [sessions EXCEPT ![Updater] =
              [up EXCEPT !.pc = "counted",
                         !.counts = [k \in dagstat_states |->
                                        CountRunRows(dag_run_rows, k[1], k[2])]]]
       /\ UNCHANGED <<dag_stats, dag_models, dag_run_rows>>
       /\ UNCHANGED <<graphVars, storeVars, bagVars, xcomVars, restVars, schedVars>>

\* session.merge(DagStat(dag_id, state, count, dirty=False)) for every pair,
\* then session.commit(), which releases the rows
UpdateCommit ==
    LET up == sessions[Updater]
    IN /\ up.pc = "counted"
       /\ dag_stats' = [k \in DOMAIN dag_stats \cup DOMAIN up.counts |->
                           IF k \in DOMAIN up.counts
                           THEN [count |-> up.counts[k], dirty |-> FALSE]
                           ELSE dag_stats[k]]
       /\ sessions' = [sessions EXCEPT ![Updater] =
              [IdleUpdater(up.done + 1) EXCEPT !.quiet = up.quiet]]
       /\ UNCHANGED <<dag_models, dag_run_rows>>
       /\ UNCHANGED <<graphVars, storeVars, bagVars, xcomVars, restVars, schedVars>>

\* as CreateInit, with stat rows that are exact unless they are dirty
StatRaceInit ==
    /\ \E autoflush \in BOOLEAN :
        sessions = [s \in Schedulers \cup {Updater} |->
                      IF s = Updater THEN IdleUpdater(0) ELSE IdleSession(autoflush)]
    /\ \/ /\ dag_run_rows = {}
          /\ task_instances = <<>>
       \/ /\ dag_run_rows = {NewDagRun("s0", 1)}
          /\ task_instances = verify_integrity(<<>>, CreateDag, 1)
    /\ \E S \in {{}, Range(dag_states)}, dirty \in BOOLEAN :
        dag_stats = [k \in {CreateDag.dag_id} \X S |->
                        [count |-> IF dirty THEN 0
                                   ELSE CountRunRows(dag_run_rows, k[1], k[2]),
                         dirty |-> dirty]]
    /\ dag_models = <<>>
    /\ jobs = <<>> /\ dag_runs = <<>> /\ pools = <<>> /\ utcnow = 0
    /\ store_call = NoCall
    /\ GraphIdle /\ BagIdle /\ XComIdle /\ RestIdle /\ SchedIdle

StatRaceNext ==
    \/ \E s \in Schedulers :
          \/ CreateDagrunAdd(s)
          \/ SetDirtyCreate(s)
          \/ SetDirtyMark(s)
          \/ CreateDagrunCommit(s)
          \/ VerifyIntegrity(s)
          \/ CreateDagrunReturn(s)
    \/ UpdateSelect
    \/ UpdateCount
    \/ UpdateCommit

SpecStatRace == StatRaceInit /\ [][StatRaceNext]_vars

StatExact(k) ==
    dag_stats[k].count = CountRunRows(dag_run_rows, k[1], k[2])

NoOperationInProgress ==
    /\ \A s \in Schedulers : sessions[s].pc \in {"idle", "returned", "raised"}
    /\ sessions[Updater].pc = "idle"

\* C34: under every interleaving of create_dagrun calls and DagStat.update no
\* dirty mark is lost: when no operation is in progress a row that is not
\* dirty has the exact count of the DagRun rows of its dag_id and state, and a
\* DagStat.update that runs after the DagRun writes have stopped leaves every
\* row exact and not dirty
C34_NoDirtyMarkLost ==
    /\ NoOperationInProgress =>
          \A k \in DOMAIN dag_stats : ~dag_stats[k].dirty => StatExact(k)
    /\ (/\ WritesStopped /\ sessions[Updater].pc = "idle"
        /\ sessions[Updater].done > 0 /\ sessions[Updater].quiet) =>
          \A k \in DOMAIN dag_stats : ~dag_stats[k].dirty /\ StatExact(k)

\* an update that had selected the dirty rows before a run was committed and
\* marked, and a second one that ran after the writes had stopped and
\* recounted the two runs
C34_Witness ==
    /\ WritesStopped /\ sessions[Updater].pc = "idle"
    /\ sessions[Updater].done = 2 /\ sessions[Updater].quiet
    /\ Cardinality(dag_run_rows) >= 2
    /\ \A state \in Range(dag_states) : <<CreateDag.dag_id, state>> \in DOMAIN dag_stats
    /\ dag_stats[<<CreateDag.dag_id, RUNNING>>].count = Cardinality(dag_run_rows)

(***************************************************************************)
(* XCom.set called by concurrent processes, next to a reader                *)
(***************************************************************************)
XComWriters == {"w1", "w2"}

\* the key and scope all the processes write
RaceKey == "k1"
RaceDate == 1

\* the start of XCom.set: the value is serialised
XComSetStart(w) ==
    \E value \in {"v1", "v2"}, enable_pickling \in BOOLEAN :
        /\ xcom_writers[w].pc = "idle"
        /\ xcom_writers' = [xcom_writers EXCEPT ![w] =
               [pc |-> "serialised",
                value |-> IF enable_pickling THEN pickle_dumps(value)
                          ELSE json_dumps(value)]]
        /\ UNCHANGED <<graphVars, storeVars, bagVars, xcomVars, schedVars, statVars,
                       variableVars, xcom_call, contextVars>>

\* session.query(cls).filter(...).delete(); session.commit()
XComSetDelete(w) ==
    /\ xcom_writers[w].pc = "serialised"
    /\ xcoms' = xcoms \ XComDuplicates(RaceKey, RaceDate, "t1", "d1")
    /\ xcom_writers' = [xcom_writers EXCEPT ![w] = [@ EXCEPT !.pc = "deleted"]]
    /\ UNCHANGED <<xcom_next_id, xcom_log>>
    /\ UNCHANGED <<graphVars, storeVars, bagVars, schedVars, statVars, variableVars,
                   xcom_call, contextVars>>

\* session.add(XCom(...)); session.commit()
XComSetInsert(w) ==
    /\ xcom_writers[w].pc = "deleted"
    /\ xcoms' = xcoms \cup {[id |-> xcom_next_id, key |-> RaceKey,
                             value |-> xcom_writers[w].value, timestamp |-> utcnow,
                             execution_date |-> RaceDate, task_id |-> "t1",
                             dag_id |-> "d1"]}
    /\ xcom_next_id' = xcom_next_id + 1
    /\ xcom_writers' = [xcom_writers EXCEPT ![w] = [@ EXCEPT !.pc = "returned"]]
    /\ UNCHANGED xcom_log
    /\ UNCHANGED <<graphVars, storeVars, bagVars, schedVars, statVars, variableVars,
                   xcom_call, contextVars>>

\* the key holds a value before the processes start
XComRaceInit ==
    /\ \E stored \in {json_dumps("v1"), pickle_dumps("v1")} :
        xcoms = {[id |-> 1, key |-> RaceKey, value |-> stored, timestamp |-> 0,
                  execution_date |-> RaceDate, task_id |-> "t1", dag_id |-> "d1"]}
    /\ xcom_next_id = 2
    /\ xcom_log = <<>>
    /\ xcom_call = NoCall
    /\ xcom_writers = [w \in XComWriters |-> [pc |-> "idle", value |-> <<>>]]
    /\ ContextIdle
    /\ GraphIdle /\ StoreIdle /\ BagIdle /\ SchedIdle /\ StatIdle /\ VariableIdle

XComRaceNext ==
    \/ \E w \in XComWriters :
          \/ XComSetStart(w)
          \/ XComSetDelete(w)
          \/ XComSetInsert(w)
    \/ CallGetOne

SpecXComRace == XComRaceInit /\ [][XComRaceNext]_vars

\* C37: whatever the interleaving of concurrent XCom.set calls on one key and
\* scope, at most one row of that key and scope exists once all of them have
\* completed, and a reader of the key, which had a value before, gets the old
\* or a new value and never finds it absent
C37_ConcurrentSetLeavesOneRowAndNoGap ==
    /\ (\A w \in XComWriters : xcom_writers[w].pc \in {"idle", "returned"}) =>
          Cardinality(XComDuplicates(RaceKey, RaceDate, "t1", "d1")) <= 1
    /\ (/\ xcom_call.op = "get_one"
        /\ xcom_call.key = RaceKey /\ xcom_call.execution_date = RaceDate) =>
          xcom_call.result # [returned |-> "None"]

\* what does hold: a single XCom.set leaves one row, and at any time the
\* table has no more rows of the key than processes that have inserted, plus
\* the first one
OneWriterLeavesOneRow ==
    LET done == {w \in XComWriters : xcom_writers[w].pc = "returned"}
    IN /\ Cardinality(XComDuplicates(RaceKey, RaceDate, "t1", "d1"))
             <= Cardinality(done) + 1
       /\ (Cardinality(done) = 1 /\ \A w \in XComWriters \ done : xcom_writers[w].pc = "idle")
             => Cardinality(XComDuplicates(RaceKey, RaceDate, "t1", "d1")) = 1

(***************************************************************************)
(* DAG.get_run_dates with every schedule interval the constructor accepts   *)
(***************************************************************************)
\* DAG.__init__ keeps any timedelta as it is: also an empty or a negative one
AcceptedIntervals ==
    ScheduleIntervals \cup {[kind |-> "timedelta", hours |-> d] : d \in (0 - MaxDelta)..0}

AnyScheduleInit ==
    /\ schedule_interval \in AcceptedIntervals
    /\ dag_timezone \in Timezones
    /\ sched_call = NoCall
    /\ GraphIdle /\ StoreIdle /\ BagIdle /\ XComIdle /\ RestIdle /\ StatIdle

AnyScheduleNext ==
    \/ CallGetRunDates

SpecAnySchedule == AnyScheduleInit /\ [][AnyScheduleNext]_vars

\* C39: get_run_dates terminates for every accepted schedule interval and
\* every finite range, a zero or negative timedelta included
C39_GetRunDatesTerminates ==
    sched_call.op = "get_run_dates" => sched_call.result.status # "loops"

\* what does hold: with '@once', with a timedelta that is not zero, and with a
\* cron expression in a zone without transition the call ends; with a positive
\* timedelta it returns
RunDatesEndWithProgress ==
    sched_call.op = "get_run_dates" =>
        /\ \/ schedule_interval.kind = "None"
           \/ schedule_interval.kind = "timedelta" /\ schedule_interval.hours # 0
           \/ schedule_interval.kind = "cron" /\ dag_timezone.before = dag_timezone.after
           => sched_call.result.status # "loops"
        /\ (schedule_interval.kind = "timedelta" /\ schedule_interval.hours > 0)
           => sched_call.result.status = "returned"
        /\ (schedule_interval.kind = "timedelta" /\ schedule_interval.hours = 0)
           => sched_call.result.status = "loops" \/ sched_call.result.run_dates = <<>>

(***************************************************************************)
(* DAG.__enter__ and DAG.__exit__ (dag.py): with blocks on DAG objects      *)
(***************************************************************************)
MaxDepth == 4

ContextDags == {"d1", "d2", "d3"}

\* self._old_context_manager_dag = _CONTEXT_MANAGER_DAG
EnterSavesOld(old, dag, current) == DictSet(old, dag, current)

\* with dag: ... -- DAG.__enter__
ContextEnter ==
    \E dag \in ContextDags :
        /\ Len(with_blocks) < MaxDepth
        /\ old_context_manager_dag' =
               EnterSavesOld(old_context_manager_dag, dag, context_manager_dag)
        /\ context_manager_dag' = dag
        /\ with_blocks' = Append(with_blocks, dag)
        /\ UNCHANGED <<graphVars, storeVars, bagVars, xcomVars, schedVars, statVars,
                       variableVars, xcom_call, xcom_writers>>

\* the innermost with block ends -- DAG.__exit__
ContextExit ==
    /\ with_blocks # <<>>
    /\ context_manager_dag' = old_context_manager_dag[with_blocks[Len(with_blocks)]]
    /\ with_blocks' = SubSeq(with_blocks, 1, Len(with_blocks) - 1)
    /\ UNCHANGED old_context_manager_dag
    /\ UNCHANGED <<graphVars, storeVars, bagVars, xcomVars, schedVars, statVars,
                   variableVars, xcom_call, xcom_writers>>

\* no with block is open and _CONTEXT_MANAGER_DAG is None, as the module sets it
ContextInit ==
    /\ context_manager_dag = "None"
    /\ old_context_manager_dag = <<>>
    /\ with_blocks = <<>>
    /\ xcom_call = NoCall /\ xcom_writers = <<>>
    /\ GraphIdle /\ StoreIdle /\ BagIdle /\ XComIdle /\ SchedIdle /\ StatIdle
    /\ VariableIdle

ContextNext ==
    \/ ContextEnter
    \/ ContextExit

SpecContext == ContextInit /\ [][ContextNext]_vars

\* C40: after every balanced sequence of enter and exit, nested in any way and
\* also on a DAG object that is already entered, the current DAG is what it
\* was before the outermost enter, and inside every with block it is the DAG
\* entered last
C40_ContextRestoredAfterBalancedNesting ==
    IF with_blocks = <<>> THEN context_manager_dag = "None"
    ELSE context_manager_dag = with_blocks[Len(with_blocks)]

\* what does hold: an enter makes the DAG entered the current one, and an
\* exit puts back what the last enter of that DAG object had found
EnterAndExitStepByStep ==
    [][/\ Len(with_blocks') > Len(with_blocks) =>
             /\ context_manager_dag' = with_blocks'[Len(with_blocks')]
             /\ old_context_manager_dag'[context_manager_dag'] = context_manager_dag
       /\ Len(with_blocks') < Len(with_blocks) =>
             context_manager_dag' = old_context_manager_dag[with_blocks[Len(with_blocks)]]
      ]_vars

====
